---- MODULE Spec2Model ----
(***************************************************************************)
(* A model of the dispatch engine of eth-rpc-distributor: the per-endpoint *)
(* EndpointWorker queues and drain loops, the RateLimitDetector, the       *)
(* WorkerPool queries, the RequestRouter's routeRequest loop and the       *)
(* statistics the detector reads back.                                     *)
(*                                                                         *)
(* JavaScript runs one callback at a time: an action of this model is one  *)
(* run of a callback from the point where it is resumed to its next await. *)
(* A settled promise resumes its awaiter in a microtask, before any timer  *)
(* or socket callback, so while a route call is "settled" nothing else     *)
(* runs.                                                                   *)
(*                                                                         *)
(* Time: the code only ever uses differences to Date.now().  The model     *)
(* keeps every deadline (cooldownUntil, the setTimeout deadlines) as its   *)
(* distance in ms from the current instant, so now is always 0 and the     *)
(* passing of time (Tick) shortens every pending deadline; a deadline in   *)
(* the past is kept as 0.                                                  *)
(***************************************************************************)
EXTENDS Integers, Sequences, FiniteSets, TLC

\* ------------------------------------------------------------------ bounds
MaxWorkers == 3        \* longest configured endpoint list
MaxCalls == 2          \* route calls made by clients
MaxEvents == 3         \* rate-limit events per endpoint explored by Spec
MaxAnswers == 5        \* upstream answers explored by Spec
MaxContacts == 3       \* the per-call contact count stops counting here
MaxQueueLen == 3       \* longest queue handed to selectWorker by SelectSpec
MaxChecks == 1         \* runs of the health-check interval explored by ShutdownSpec
MaxProbes == 2         \* runs of the health-check interval explored by ProbeSpec
shutdownTimeout == 3000 \* shutdown's wait for the workers (30 s of 60 s cooldown)
TickMs == 3000         \* granularity of the passing of time

\* ------------------------------------------------- configuration (config.json)
\* a small configuration: the defaults are maxQueueSize 1000, minCooldownMs 60000,
\* maxCooldownMs 300000 and historyWindowSize 20
maxQueueSize == 1
minCooldownMs == 6000
maxCooldownMs == 12000
backoffMultiplier == 2
historyWindowSize == 5
detectionThresholdNum == 1
detectionThresholdDen == 2

\* ------------------------------------------------------- program constants
now == 0
Null == -1
MinHistory == 5
ShutdownSleepMs == 100
WorkerSleepMs == 1000
RouterSleepMs == 5000

HEALTHY == "HEALTHY"
RATE_LIMITED == "RATE_LIMITED"
COOLING_DOWN == "COOLING_DOWN"
ERROR == "ERROR"
WORKER_STATES == {HEALTHY, RATE_LIMITED, COOLING_DOWN, ERROR}

TOO_MANY_REQUESTS == 429
SERVICE_UNAVAILABLE == 503
FORBIDDEN == 403

RATE_LIMIT_KEYWORDS ==
  <<"rate limit", "too many requests", "exceeded", "quota", "throttle", "too many">>

temporaryErrorCodes == <<19, -32000, -32603, 429, 503>>

temporaryKeywords ==
  <<"temporary", "retry", "timeout", "timed out", "unavailable", "connection",
    "network", "try again", "overloaded", "capacity">>

\* ------------------------------------------------------------------ strings
\* TLC cannot look inside a string: chars gives the characters of every string
\* the model searches in or for.
chars ==
   ("Temporary internal error" :> <<"T", "e", "m", "p", "o", "r", "a", "r", "y", " ", "i", "n", "t", "e", "r", "n",
        "a", "l", " ", "e", "r", "r", "o", "r">>)
   @@ ("GRPC Context cancellation" :> <<"G", "R", "P", "C", " ", "C", "o", "n", "t", "e", "x", "t", " ", "c", "a", "n",
        "c", "e", "l", "l", "a", "t", "i", "o", "n">>)
   @@ ("Method not found" :> <<"M", "e", "t", "h", "o", "d", " ", "n", "o", "t", " ", "f", "o", "u", "n", "d">>)
   @@ ("Too Many Requests" :> <<"T", "o", "o", " ", "M", "a", "n", "y", " ", "R", "e", "q", "u", "e", "s", "t",
        "s">>)
   @@ ("timeout of 30000ms exceeded" :> <<"t", "i", "m", "e", "o", "u", "t", " ", "o", "f", " ", "3", "0", "0", "0", "0",
        "m", "s", " ", "e", "x", "c", "e", "e", "d", "e", "d">>)
   @@ ("socket hang up" :> <<"s", "o", "c", "k", "e", "t", " ", "h", "a", "n", "g", " ", "u", "p">>)
   @@ ("Service Unavailable" :> <<"S", "e", "r", "v", "i", "c", "e", " ", "U", "n", "a", "v", "a", "i", "l", "a",
        "b", "l", "e">>)
   @@ ("execution reverted" :> <<"e", "x", "e", "c", "u", "t", "i", "o", "n", " ", "r", "e", "v", "e", "r", "t",
        "e", "d">>)
   @@ ("temporary" :> <<"t", "e", "m", "p", "o", "r", "a", "r", "y">>)
   @@ ("retry" :> <<"r", "e", "t", "r", "y">>)
   @@ ("timeout" :> <<"t", "i", "m", "e", "o", "u", "t">>)
   @@ ("timed out" :> <<"t", "i", "m", "e", "d", " ", "o", "u", "t">>)
   @@ ("unavailable" :> <<"u", "n", "a", "v", "a", "i", "l", "a", "b", "l", "e">>)
   @@ ("connection" :> <<"c", "o", "n", "n", "e", "c", "t", "i", "o", "n">>)
   @@ ("network" :> <<"n", "e", "t", "w", "o", "r", "k">>)
   @@ ("try again" :> <<"t", "r", "y", " ", "a", "g", "a", "i", "n">>)
   @@ ("overloaded" :> <<"o", "v", "e", "r", "l", "o", "a", "d", "e", "d">>)
   @@ ("capacity" :> <<"c", "a", "p", "a", "c", "i", "t", "y">>)
   @@ ("grpc" :> <<"g", "r", "p", "c">>)
   @@ ("cancel" :> <<"c", "a", "n", "c", "e", "l">>)
   @@ ("rate limit" :> <<"r", "a", "t", "e", " ", "l", "i", "m", "i", "t">>)
   @@ ("too many requests" :> <<"t", "o", "o", " ", "m", "a", "n", "y", " ", "r", "e", "q", "u", "e", "s", "t",
        "s">>)
   @@ ("exceeded" :> <<"e", "x", "c", "e", "e", "d", "e", "d">>)
   @@ ("quota" :> <<"q", "u", "o", "t", "a">>)
   @@ ("throttle" :> <<"t", "h", "r", "o", "t", "t", "l", "e">>)
   @@ ("too many" :> <<"t", "o", "o", " ", "m", "a", "n", "y">>)
   @@ ("0x1" :> <<"0", "x", "1">>)
   @@ ("0x10" :> <<"0", "x", "1", "0">>)
   @@ ("error" :> <<"e", "r", "r", "o", "r">>)
   @@ ("result" :> <<"r", "e", "s", "u", "l", "t">>)
   @@ ("Queue full" :> <<"Q", "u", "e", "u", "e", " ", "f", "u", "l", "l">>)
   @@ ("Temporary error from " :> <<"T", "e", "m", "p", "o", "r", "a", "r", "y", " ", "e", "r", "r", "o", "r", " ",
        "f", "r", "o", "m", " ">>)
   @@ (": " :> <<":", " ">>)
   @@ ("All RPC endpoints failed: " :> <<"A", "l", "l", " ", "R", "P", "C", " ", "e", "n", "d", "p", "o", "i", "n", "t",
        "s", " ", "f", "a", "i", "l", "e", "d", ":", " ">>)
   @@ ("1" :> <<"1">>)
   @@ ("2" :> <<"2">>)
   @@ ("3" :> <<"3">>)
   @@ ("4" :> <<"4">>)
   @@ ("5" :> <<"5">>)
   @@ ("Temporary internal error. Please retry" :>
        <<"T", "e", "m", "p", "o", "r", "a", "r", "y", " ", "i", "n", "t", "e", "r",
        "n", "a", "l", " ", "e", "r", "r", "o", "r", ".", " ", "P", "l", "e", "a",
        "s", "e", " ", "r", "e", "t", "r", "y">>)
   @@ ("" :> <<>>)

upperCase ==
  <<"A","B","C","D","E","F","G","H","I","J","K","L","M",
    "N","O","P","Q","R","S","T","U","V","W","X","Y","Z">>

lowerCase ==
  <<"a","b","c","d","e","f","g","h","i","j","k","l","m",
    "n","o","p","q","r","s","t","u","v","w","x","y","z">>

toLowerCase(s) ==
  [i \in 1..Len(s) |->
     IF \E k \in 1..26 : upperCase[k] = s[i]
     THEN lowerCase[CHOOSE k \in 1..26 : upperCase[k] = s[i]]
     ELSE s[i]]

includes(text, keyword) ==
  \E i \in 0..(Len(text) - Len(keyword)) :
     SubSeq(text, i + 1, i + Len(keyword)) = keyword

Range(s) == {s[i] : i \in 1..Len(s)}

Min(a, b) == IF a < b THEN a ELSE b
Max(a, b) == IF a > b THEN a ELSE b

RECURSIVE Pow(_, _)
Pow(b, e) == IF e = 0 THEN 1 ELSE b * Pow(b, e - 1)

RECURSIVE Sum(_)
Sum(s) == IF s = <<>> THEN 0 ELSE Head(s) + Sum(Tail(s))

\* --------------------------------------------------- upstream answers (axios)
NoRpcError == [code |-> 0, message |-> ""]
NoError == [isError |-> FALSE, code |-> "", message |-> <<>>]

\* response.data: a parsed JSON-RPC envelope, a text body, or nothing
Envelope(result, hasError, rpcError) ==
  [type |-> "object", text |-> "", hasError |-> hasError, error |-> rpcError,
   result |-> result, retryAfter |-> 0]
TextBody(text) ==
  [type |-> "string", text |-> text, hasError |-> FALSE, error |-> NoRpcError,
   result |-> "", retryAfter |-> 0]
Undefined ==
  [type |-> "undefined", text |-> "", hasError |-> FALSE, error |-> NoRpcError,
   result |-> "", retryAfter |-> 0]

\* response.headers: the HTTP header Retry-After in seconds, 0 for none
NoHeaders == [retryAfter |-> 0]
RetryAfter(seconds) == [retryAfter |-> seconds]

\* what axios.post hands back: a response of any status, or a thrown error
Response(status, data) ==
  [status |-> status, headers |-> NoHeaders, data |-> data, error |-> NoError]
Thrown(code, message) ==
  [status |-> 0, headers |-> NoHeaders, data |-> Undefined,
   error |-> [isError |-> TRUE, code |-> code, message |-> <<message>>]]

ResultOk == Response(200, Envelope("0x1", FALSE, NoRpcError))
MethodNotFound ==
  Response(200, Envelope("", TRUE, [code |-> -32601, message |-> "Method not found"]))
TemporaryInternal ==
  Response(200, Envelope("", TRUE, [code |-> 19, message |-> "Temporary internal error"]))
TemporaryRetry ==
  Response(200, Envelope("", TRUE, [code |-> 19,
                                    message |-> "Temporary internal error. Please retry"]))
GrpcCancelled ==
  Response(200, Envelope("", TRUE, [code |-> 14, message |-> "GRPC Context cancellation"]))
TooManyRequests == Response(429, TextBody("Too Many Requests"))
ServiceUnavailable == Response(503, TextBody("Service Unavailable"))
RetryAfterTwo == [TooManyRequests EXCEPT !.headers = RetryAfter(2)]
\* HTTP 429 whose JSON body has a property headers: {"retry-after": seconds}
BodyRetryAfter(seconds) ==
  Response(429, [Envelope("", TRUE, [code |-> 429, message |-> "Too Many Requests"])
                   EXCEPT !.retryAfter = seconds])
AxiosTimeout == Thrown("ECONNABORTED", "timeout of 30000ms exceeded")
SocketHangUp == Thrown("ECONNRESET", "socket hang up")

Responses ==
  {ResultOk, MethodNotFound, TemporaryInternal, GrpcCancelled, TooManyRequests,
   AxiosTimeout, SocketHangUp}

\* the answers of an upstream whose every answer is the RPC error 19
CascadeResponses == {TemporaryInternal, TemporaryRetry}

\* the answers of an upstream that serves a request or is overloaded
BackoffResponses == {ResultOk, ServiceUnavailable}

\* the answers of an upstream that serves a request or says when to come back
RetryAfterResponses == {ResultOk, RetryAfterTwo}

\* the answers RateLimitDetector is asked about on its own
DetectorResponses ==
  {ResultOk, ServiceUnavailable, BodyRetryAfter(2), BodyRetryAfter(13)}

AllResponses ==
  Responses \cup CascadeResponses \cup BackoffResponses \cup RetryAfterResponses
    \cup DetectorResponses

\* JSON.stringify of an envelope
stringify(data) ==
  IF data.hasError
  THEN <<"{", "\"">> \o chars["error"] \o <<"\"", ":", "{", "}", "}">>
  ELSE <<"{", "\"">> \o chars["result"] \o <<"\"", ":", "\"">> \o chars[data.result]
       \o <<"\"", "}">>

\* the text of an Error's message, which the code builds from pieces
RECURSIVE text(_)
text(message) ==
  IF message = <<>> THEN <<>> ELSE chars[Head(message)] \o text(Tail(message))

VARIABLES
  endpoints,            \* config.endpoints: the workers are 1..endpoints, in order
  queue,                \* EndpointWorker.queue: the route calls whose items wait
  isProcessing,         \* EndpointWorker.isProcessing
  state,                \* EndpointWorker.state
  cooldownUntil,        \* EndpointWorker.cooldownUntil (ms from now), or Null
  loops,                \* the processQueue invocations of a worker that have not
                        \* returned: where each is suspended and on which item
  consecutiveLimits,    \* RateLimitDetector.consecutiveLimits
  request_log,          \* table request_log: the success flags, oldest first
  endpoint_statistics,  \* table endpoint_statistics
  rate_limit_events,    \* table rate_limit_events: cooldown_duration_ms per row
  pc,                   \* where each routeRequest call is
  attempts,             \* routeRequest's attempts
  triedWorkers,         \* routeRequest's triedWorkers
  lastError,            \* routeRequest's lastError
  availableWorkers,     \* routeRequest's availableWorkers of this iteration
  worker,               \* routeRequest's worker of this iteration, 0 for none
  settled,              \* how the promise of queueRequest was settled
  timer,                \* the deadline of routeRequest's sleep (ms from now)
  result,               \* what routeRequest returned
  thrown,               \* the message of the Error routeRequest threw
  contacted,            \* per call and worker: upstream requests made for the call
  rejections,           \* per call: the workers that rejected it
  answers,              \* upstream answers so far (it stops counting at MaxAnswers)
  lastAnswer,           \* per call in routeRequest: the upstream answer that settled
                        \* its item last, and from which worker
  input,                \* what the operation under study was given: the workers
                        \* handed to selectWorker, the answer judged, the call
                        \* recorded, the bodies posted
  output,               \* what it gave back: the worker selected, the cooldowns
                        \* chosen, the replies sent
  process,              \* the Node.js process: running, shutting down or exited
  classified            \* isTemporaryError, checkResponseBody and checkTimeout of
                        \* every answer of Responses, worked out once (they depend
                        \* on the answer alone)


\* ------------------------------------------------- EndpointWorker.isTemporaryError
\* every RPC error is taken for a temporary one
isTemporaryError_Always(rpcError) == TRUE

isTemporaryError(rpcError) ==
  LET code == rpcError.code
      message == toLowerCase(chars[rpcError.message])
  IN \/ code \in Range(temporaryErrorCodes)
     \/ \E k \in 1..Len(temporaryKeywords) : includes(message, chars[temporaryKeywords[k]])

\* ------------------------------------------------------------ RateLimitDetector
checkHttpStatus(statusCode) ==
  /\ statusCode # 0
  /\ statusCode \in {TOO_MANY_REQUESTS, SERVICE_UNAVAILABLE, FORBIDDEN}

checkResponseBody(responseData, error) ==
  LET fromData ==
        IF responseData.type = "string"
        THEN <<toLowerCase(chars[responseData.text])>>
        ELSE IF responseData.type = "object" /\ responseData.hasError
                /\ responseData.error.message # ""
        THEN <<toLowerCase(chars[responseData.error.message])>>
        ELSE IF responseData.type = "object"
        THEN <<toLowerCase(stringify(responseData))>>
        ELSE <<>>
      fromError ==
        IF error.isError /\ error.message # <<>>
        THEN <<toLowerCase(text(error.message))>>
        ELSE <<>>
      textToCheck == fromData \o fromError
      combinedText ==
        IF Len(textToCheck) = 2 THEN textToCheck[1] \o <<" ">> \o textToCheck[2]
        ELSE IF Len(textToCheck) = 1 THEN textToCheck[1]
        ELSE <<>>
  IN \E k \in 1..Len(RATE_LIMIT_KEYWORDS) :
        includes(combinedText, chars[RATE_LIMIT_KEYWORDS[k]])

\* StatisticsRepository.getRecentRequests: the newest limit rows, oldest first
getRecentRequests(log, limit) ==
  IF Len(log) <= limit THEN log ELSE SubSeq(log, Len(log) - limit + 1, Len(log))

\* a detector without the failure-rate signal
checkFailureRate_Off(log) == FALSE

checkFailureRate(log) ==
  LET recentRequests == getRecentRequests(log, historyWindowSize)
      failureCount == Cardinality({i \in 1..Len(recentRequests) : ~recentRequests[i]})
  IN IF Len(recentRequests) < MinHistory
     THEN FALSE
     ELSE failureCount * detectionThresholdDen
            >= detectionThresholdNum * Len(recentRequests)

checkTimeout(error) ==
  /\ error.isError
  /\ \/ error.code = "ETIMEDOUT"
     \/ error.code = "ECONNABORTED"
     \/ /\ error.message # <<>>
        /\ includes(toLowerCase(text(error.message)), chars["timeout"])

\* the value of responseData.headers['retry-after'] in ms, 0 for none
parseRetryAfter(responseData) ==
  IF responseData.type = "undefined" \/ responseData.retryAfter = 0
  THEN 0
  ELSE responseData.retryAfter * 1000

\* StatisticsRepository.getAverageCooldown over the events of the last 7 days:
\* the pair <<sum, count>>, count 0 for no event
getAverageCooldown(events) == <<Sum(events), Len(events)>>

\* Math.round of sum / count
Round(sum, count) == (2 * sum + count) \div (2 * count)

\* calculateCooldown's base cooldown * multiplier ^ consecutive events
backoff(consecutive) ==
  Min(minCooldownMs * Pow(backoffMultiplier, consecutive), maxCooldownMs)

\* the historical average used as it is
capped_Not(sum, count) == Round(sum, count)

\* Math.round of Math.min(historicalAvg, maxCooldownMs), historicalAvg = sum / count
capped(sum, count) ==
  IF sum >= maxCooldownMs * count THEN maxCooldownMs ELSE Round(sum, count)

\* cooldownMs and the endpoint's new consecutive-limit count
calculateCooldown(consecutive, events, responseData) ==
  LET retryAfter == parseRetryAfter(responseData)
      avg == getAverageCooldown(events)
      historical ==
        IF avg[2] > 0 /\ avg[1] > backoff(consecutive) * avg[2]
        THEN capped(avg[1], avg[2])
        ELSE backoff(consecutive)
  IN IF retryAfter # 0
     THEN [cooldownMs |-> retryAfter, consecutive |-> consecutive]
     ELSE [cooldownMs |-> historical, consecutive |-> consecutive + 1]

\* every signal counted, positive or not
boolCount_One(b) == 1

boolCount(b) == IF b THEN 1 ELSE 0

\* a JavaScript number that is the quotient numerator / denominator
Quotient(numerator, denominator) == <<numerator, denominator>>

\* detectRateLimit(endpointId, resp.data, resp.status, responseTime, resp.error)
\* on the endpoint's consecutive-limit count, request log and events
detectRateLimit(consecutive, log, events, resp) ==
  LET responseData == resp.data
      signals == [httpStatus |-> checkHttpStatus(resp.status),
                  responseBody |-> classified.checkResponseBody[resp],
                  failureRate |-> checkFailureRate(log),
                  timeout |-> classified.checkTimeout[resp]]
      signalCount == boolCount(signals.httpStatus) + boolCount(signals.responseBody)
                     + boolCount(signals.failureRate) + boolCount(signals.timeout)
      isRateLimited == signalCount >= 1
      cooldown == calculateCooldown(consecutive, events, responseData)
  IN IF isRateLimited
     THEN [isRateLimited |-> TRUE, cooldownMs |-> cooldown.cooldownMs,
           signalCount |-> signalCount, signals |-> signals,
           confidence |-> Quotient(signalCount, Cardinality(DOMAIN signals)),
           consecutive |-> cooldown.consecutive]
     ELSE [isRateLimited |-> FALSE, cooldownMs |-> 0,
           signalCount |-> 0, signals |-> signals,
           confidence |-> Quotient(0, 1), consecutive |-> 0]

\* ---------------------------------------------------------- StatisticsRepository
\* avg_response_time_ms is a REAL
NoStatistics ==
  [total_requests |-> 0, successful_requests |-> 0, failed_requests |-> 0,
   rate_limited_requests |-> 0, total_response_time_ms |-> 0,
   avg_response_time_ms |-> Quotient(0, 1)]

\* a failed request counted in total_requests only
recordRequest_FailureUncounted(stats, log, success, responseTimeMs) ==
  [stats |-> [stats EXCEPT
                !.total_requests = @ + 1,
                !.successful_requests = IF success THEN @ + 1 ELSE @,
                !.total_response_time_ms = @ + responseTimeMs,
                !.avg_response_time_ms =
                   Quotient(stats.total_response_time_ms + responseTimeMs,
                            stats.total_requests + 1)],
   log |-> getRecentRequests(Append(log, success), historyWindowSize)]

\* the endpoint's statistics row and request log after recordRequest; the log
\* keeps the rows getRecentRequests can still return
recordRequest(stats, log, success, responseTimeMs) ==
  [stats |-> [stats EXCEPT
                !.total_requests = @ + 1,
                !.successful_requests = IF success THEN @ + 1 ELSE @,
                !.failed_requests = IF success THEN @ ELSE @ + 1,
                !.total_response_time_ms = @ + responseTimeMs,
                !.avg_response_time_ms =
                   Quotient(stats.total_response_time_ms + responseTimeMs,
                            stats.total_requests + 1)],
   log |-> getRecentRequests(Append(log, success), historyWindowSize)]

\* a rate limit counted as a failed request as well
recordRateLimitEvent_CountsFailure(stats, events, cooldownMs) ==
  [stats |-> [stats EXCEPT !.rate_limited_requests = Min(@ + 1, MaxEvents),
                           !.total_requests = @ + 1,
                           !.failed_requests = @ + 1],
   events |-> Append(events, cooldownMs)]

\* a rate_limit_events row without the increment of rate_limited_requests
recordRateLimitEvent_NoCount(stats, events, cooldownMs) ==
  [stats |-> stats, events |-> Append(events, cooldownMs)]

\* the endpoint's statistics row and its events of the last 7 days after
\* recordRateLimitEvent; beyond MaxEvents the oldest event leaves the 7-day
\* window and the counter stops counting
recordRateLimitEvent(stats, events, cooldownMs) ==
  [stats |-> [stats EXCEPT
                !.rate_limited_requests = Min(@ + 1, MaxEvents)],
   events |-> IF Len(events) >= MaxEvents
              THEN Append(Tail(events), cooldownMs)
              ELSE Append(events, cooldownMs)]

\* ------------------------------------------------------------------- state
Workers == 1..MaxWorkers
Calls == 1..MaxCalls
ResponseTimes == {25}

workerVars == <<queue, isProcessing, state, cooldownUntil, loops, consecutiveLimits>>
statsVars == <<request_log, endpoint_statistics, rate_limit_events>>
routeVars == <<pc, attempts, triedWorkers, lastError, availableWorkers, worker,
               settled, timer>>
doneVars == <<result, thrown>>
vars == <<endpoints, workerVars, statsVars, routeVars, doneVars, contacted, rejections,
          answers, lastAnswer, input, output, process, classified>>

url(w) == ToString(w)
getAllWorkers == 1..endpoints

NoReject == [code |-> "", message |-> <<>>, rpcError |-> NoRpcError]
NoSettle == [kind |-> "none", data |-> Undefined, error |-> NoReject]
\* a promise resolved without its value
Resolve_Nothing(data) == [kind |-> "resolve", data |-> Undefined, error |-> NoReject]

Resolve(data) == [kind |-> "resolve", data |-> data, error |-> NoReject]
Reject(error) == [kind |-> "reject", data |-> Undefined, error |-> error]

QueueFull == [code |-> "", message |-> <<"Queue full">>, rpcError |-> NoRpcError]
TemporaryError(w, rpcError) ==
  [code |-> "TEMPORARY_ERROR",
   message |-> <<"Temporary error from ", url(w), ": ", rpcError.message>>,
   rpcError |-> rpcError]
TransportError(error) ==
  [code |-> error.code, message |-> error.message, rpcError |-> NoRpcError]

NoLoop == [at |-> "exit", item |-> 0, timer |-> 0]
NoAnswer == [worker |-> 0, resp |-> Response(0, Undefined)]

\* ------------------------------------------------------------ EndpointWorker
\* isAvailable without its cooldown test
isAvailable_NoCooldown(w) == state[w] # ERROR

isAvailable(w) ==
  IF state[w] = COOLING_DOWN /\ now < cooldownUntil[w] THEN FALSE
  ELSE IF state[w] = ERROR THEN FALSE
  ELSE TRUE

getQueueLength(w) == Len(queue[w])

getRecoveryTime(w) ==
  IF state[w] = COOLING_DOWN /\ cooldownUntil[w] # Null
  THEN Max(0, cooldownUntil[w] - now)
  ELSE 0

hasActiveRequests(w) == isProcessing[w] \/ Len(queue[w]) > 0

\* a cooldown exit that leaves one strike
resetConsecutiveLimits_One(consecutive) == 1

\* a cooldown exit that keeps the strikes
resetConsecutiveLimits_Keeps(consecutive) == consecutive

\* resetConsecutiveLimits: the endpoint's consecutive-limit count after
resetConsecutiveLimits(consecutive) == 0

\* a loop that never waits for the cooldown
inCooldown_Never(st, cu) == FALSE

\* processQueue's test "we're in cooldown"
inCooldown(st, cu) == st = COOLING_DOWN /\ now < cu

\* the newest item taken instead of the oldest
shift_Pop(q) == [item |-> q[Len(q)], queue |-> SubSeq(q, 1, Len(q) - 1)]

\* queue.shift(): the item taken and the queue left
shift(q) == [item |-> Head(q), queue |-> Tail(q)]

\* processQueue from the head of its while loop to its next await, on the
\* worker fields q (queue), st (state), cu (cooldownUntil) and the endpoint's
\* consecutive-limit count cl
processQueue(q, st, cu, cl) ==
  IF Len(q) = 0
  THEN [queue |-> q, state |-> st, cooldownUntil |-> cu, consecutive |-> cl,
        loop |-> NoLoop]
  ELSE IF inCooldown(st, cu)
  THEN [queue |-> q, state |-> st, cooldownUntil |-> cu, consecutive |-> cl,
        loop |-> [at |-> "sleep", item |-> 0, timer |-> Min(WorkerSleepMs, cu - now)]]
  ELSE LET ended == st = COOLING_DOWN /\ now >= cu
       IN [queue |-> shift(q).queue,
           state |-> IF ended THEN HEALTHY ELSE st,
           cooldownUntil |-> IF ended THEN Null ELSE cu,
           consecutive |-> IF ended THEN resetConsecutiveLimits(cl) ELSE cl,
           loop |-> [at |-> "http", item |-> shift(q).item, timer |-> 0]]

\* queueRequest without its isProcessing test: every enqueue starts a drain loop
startsProcessing_Always(processing) == TRUE

\* queueRequest that never calls processQueue
startsProcessing_Never(processing) == FALSE

\* queueRequest's test before it calls processQueue
startsProcessing(processing) == ~processing

RemoveAt(s, i) == SubSeq(s, 1, i - 1) \o SubSeq(s, i + 1, Len(s))

\* the loops of a worker after its loop i ran on to next
Continue(ls, i, next) ==
  IF next.at = "exit" THEN RemoveAt(ls, i) ELSE [ls EXCEPT ![i] = next]

\* the size test one item too late
queueFull_Beyond(length) == length > maxQueueSize

\* queueRequest's test of the queue size limit
queueFull(length) == length >= maxQueueSize

\* queueRequest(r) on worker w: whether the item was accepted, and the worker after
queueRequest(w, r) ==
  IF queueFull(Len(queue[w]))
  THEN [accepted |-> FALSE, queue |-> queue[w], isProcessing |-> isProcessing[w],
        state |-> state[w], cooldownUntil |-> cooldownUntil[w],
        consecutive |-> consecutiveLimits[w], loops |-> loops[w], loop |-> NoLoop]
  ELSE IF startsProcessing(isProcessing[w])
  THEN LET s == processQueue(Append(queue[w], r), state[w], cooldownUntil[w],
                             consecutiveLimits[w])
       IN [accepted |-> TRUE, queue |-> s.queue, isProcessing |-> s.loop.at # "exit",
           state |-> s.state, cooldownUntil |-> s.cooldownUntil,
           consecutive |-> s.consecutive,
           loops |-> IF s.loop.at = "exit" THEN loops[w] ELSE Append(loops[w], s.loop),
           loop |-> s.loop]
  ELSE [accepted |-> TRUE, queue |-> Append(queue[w], r),
        isProcessing |-> isProcessing[w], state |-> state[w],
        cooldownUntil |-> cooldownUntil[w], consecutive |-> consecutiveLimits[w],
        loops |-> loops[w], loop |-> NoLoop]

\* a rate limit that leaves the worker RATE_LIMITED
handleRateLimit_RateLimited(st, cooldownMs) ==
  [state |-> RATE_LIMITED, cooldownUntil |-> now + cooldownMs]

\* a cooldown deadline set without the state
handleRateLimit_KeepsState(st, cooldownMs) ==
  [state |-> st, cooldownUntil |-> now + cooldownMs]

\* handleRateLimit on a worker in state st: its state and cooldownUntil after
handleRateLimit(st, cooldownMs) ==
  [state |-> COOLING_DOWN, cooldownUntil |-> now + cooldownMs]

\* the rate-limited item dropped
unshift_Drop(q, item) == q

\* the item put back behind the waiting items
unshift_Tail(q, item) == Append(q, item)

\* queue.unshift(item)
unshift(q, item) == <<item>> \o q

\* one more upstream request made for the item of a loop that is now at makeRequest
Contact(w, loop) ==
  IF loop.at = "http"
  THEN [contacted EXCEPT ![loop.item][w] = Min(@ + 1, MaxContacts)]
  ELSE contacted

\* ---------------------------------------------------------------- WorkerPool
getAvailableWorkers == {w \in getAllWorkers : isAvailable(w)}

getShortestRecoveryTime ==
  LET coolingDownWorkers == {w \in getAllWorkers : ~isAvailable(w)}
      recoveryTimes == {getRecoveryTime(w) : w \in coolingDownWorkers} \ {0}
  IN IF coolingDownWorkers = {} THEN 0
     ELSE IF recoveryTimes = {} THEN 0
     ELSE CHOOSE t \in recoveryTimes : \A u \in recoveryTimes : t <= u

\* -------------------------------------------------------------- RequestRouter
\* a set of workers as the array filter() gives: in configuration order
RECURSIVE InOrder(_)
InOrder(S) ==
  IF S = {} THEN <<>>
  ELSE LET first == CHOOSE w \in S : \A v \in S : w <= v
       IN <<first>> \o InOrder(S \ {first})

\* the reduction with <= for <: of the workers with the shortest queue, the last
RECURSIVE reduce_LastOfTies(_, _)
reduce_LastOfTies(workers, min) ==
  IF workers = <<>> THEN min
  ELSE reduce_LastOfTies(Tail(workers),
                         IF getQueueLength(Head(workers)) <= getQueueLength(min)
                         THEN Head(workers) ELSE min)

\* workers.reduce((min, worker) => ...) of selectWorker
RECURSIVE reduce(_, _)
reduce(workers, min) ==
  IF workers = <<>> THEN min
  ELSE reduce(Tail(workers),
              IF getQueueLength(Head(workers)) < getQueueLength(min)
              THEN Head(workers) ELSE min)

selectWorker(workers) ==
  IF Len(workers) = 0 THEN 0 ELSE reduce(Tail(workers), Head(workers))

\* three tries per worker
maxRetries_Three == Cardinality(getAllWorkers) * 3

maxRetries == Cardinality(getAllWorkers) * 2

\* every available worker is a candidate, tried or not
workersToTry_Available(available, tried) == available

\* routeRequest's workersToTry: the available workers not tried yet, or all the
\* available ones when none is left
workersToTry(available, tried) ==
  LET untriedWorkers == available \ tried
  IN IF untriedWorkers # {} THEN untriedWorkers ELSE available

\* the sleep without its 5 s ceiling
waitTime_Uncapped(recoveryTime) ==
  IF recoveryTime # 0 THEN recoveryTime ELSE RouterSleepMs

\* routeRequest's sleep when no worker is available
waitTime(recoveryTime) ==
  Min(IF recoveryTime # 0 THEN recoveryTime ELSE RouterSleepMs, RouterSleepMs)

\* ------------------------------------------------------------------ actions
\* no promise reaction is pending: timers and sockets are served only then
MacroReady == \A r \in Calls : pc[r] # "settled"

SetWorker(w, s, ls) ==
  /\ queue' = [queue EXCEPT ![w] = s.queue]
  /\ state' = [state EXCEPT ![w] = s.state]
  /\ cooldownUntil' = [cooldownUntil EXCEPT ![w] = s.cooldownUntil]
  /\ consecutiveLimits' = [consecutiveLimits EXCEPT ![w] = s.consecutive]
  /\ loops' = [loops EXCEPT ![w] = ls]

\* one iteration of routeRequest's while (true), up to its await, entered with
\* attempts = att, triedWorkers = tried and lastError = lerr
Iterate(r, att, tried, lerr) ==
  \E available \in {getAvailableWorkers} :
  \E candidates \in {workersToTry(available, tried)} :
     /\ attempts' = [attempts EXCEPT ![r] = Min(att + 1, maxRetries)]
     /\ triedWorkers' = [triedWorkers EXCEPT ![r] = tried]
     /\ lastError' = [lastError EXCEPT ![r] = lerr]
     /\ availableWorkers' = [availableWorkers EXCEPT ![r] = available]
     /\ IF candidates # {}
        THEN \E w \in {selectWorker(InOrder(candidates))} :
             \E q \in {queueRequest(w, r)} :
             /\ worker' = [worker EXCEPT ![r] = w]
             /\ pc' = [pc EXCEPT ![r] = IF q.accepted THEN "await" ELSE "settled"]
             /\ settled' = [settled EXCEPT
                              ![r] = IF q.accepted THEN NoSettle ELSE Reject(QueueFull)]
             /\ rejections' = IF q.accepted THEN rejections
                              ELSE [rejections EXCEPT ![r] = @ \cup {w}]
             /\ timer' = timer
             /\ SetWorker(w, q, q.loops)
             /\ isProcessing' = [isProcessing EXCEPT ![w] = q.isProcessing]
             /\ contacted' = Contact(w, q.loop)
        ELSE /\ worker' = [worker EXCEPT ![r] = 0]
             /\ pc' = [pc EXCEPT ![r] = "sleep"]
             /\ timer' = [timer EXCEPT ![r] = waitTime(getShortestRecoveryTime)]
             /\ UNCHANGED <<settled, rejections, workerVars, contacted>>

\* a client calls routeRequest (calls are numbered in the order they are made)
RouteRequest(r) ==
  /\ MacroReady
  /\ pc[r] = "idle"
  /\ \A q \in Calls : q < r => pc[q] # "idle"
  /\ Iterate(r, 0, {}, NoReject)
  /\ UNCHANGED <<endpoints, classified, process, input, output, answers, lastAnswer, statsVars,
                 doneVars>>

\* routeRequest's sleep is over
RouterWake(r) ==
  /\ MacroReady
  /\ pc[r] = "sleep"
  /\ timer[r] = 0
  /\ Iterate(r, attempts[r], triedWorkers[r], lastError[r])
  /\ UNCHANGED <<endpoints, classified, process, input, output, answers, lastAnswer, statsVars,
                 doneVars>>

\* routeRequest returns or throws: its local variables are gone
Leave(r) ==
  /\ attempts' = [attempts EXCEPT ![r] = 0]
  /\ triedWorkers' = [triedWorkers EXCEPT ![r] = {}]
  /\ lastError' = [lastError EXCEPT ![r] = NoReject]
  /\ availableWorkers' = [availableWorkers EXCEPT ![r] = {}]
  /\ worker' = [worker EXCEPT ![r] = 0]
  /\ settled' = [settled EXCEPT ![r] = NoSettle]
  /\ lastAnswer' = [lastAnswer EXCEPT ![r] = NoAnswer]

\* a rejection that leaves no trace in triedWorkers
add_Not(tried, w) == tried

\* triedWorkers.add(worker.url)
add(tried, w) == tried \cup {w}

\* giving up only when every configured worker has been tried
givesUp_AllWorkers(tried, available, att) ==
  Cardinality(tried) >= Cardinality(getAllWorkers) /\ att >= maxRetries

\* routeRequest's test for giving up after a rejection
givesUp(tried, available, att) ==
  Cardinality(tried) >= Cardinality(available) /\ att >= maxRetries

\* routeRequest resumes after await worker.queueRequest(...)
RouterSettle(r) ==
  /\ pc[r] = "settled"
  /\ IF settled[r].kind = "resolve"
     THEN /\ pc' = [pc EXCEPT ![r] = "returned"]
          /\ result' = [result EXCEPT ![r] = settled[r].data]
          /\ Leave(r)
          /\ UNCHANGED <<endpoints, classified, process, input, output, answers, workerVars,
                         statsVars, timer, thrown, contacted, rejections>>
     ELSE \E error \in {settled[r].error} :
          \E tried \in {add(triedWorkers[r], worker[r])} :
             IF givesUp(tried, availableWorkers[r], attempts[r])
             THEN /\ pc' = [pc EXCEPT ![r] = "failed"]
                  /\ thrown' = [thrown EXCEPT
                                  ![r] = <<"All RPC endpoints failed: ">> \o error.message]
                  /\ Leave(r)
                  /\ UNCHANGED <<endpoints, classified, process, input, output, answers,
                                 workerVars, statsVars, timer, result, contacted,
                                 rejections>>
             ELSE /\ \E untried \in
                          {IF Cardinality(tried) >= Cardinality(availableWorkers[r])
                           THEN {} ELSE tried} :
                       Iterate(r, attempts[r], untried, error)
                  /\ UNCHANGED <<endpoints, classified, process, input, output, answers,
                                 lastAnswer, statsVars, doneVars>>

\* axios.post of loop i of worker w comes back with resp after responseTime ms,
\* and processQueue runs on to its next await
UpstreamRespond(w, i, resp, responseTime) ==
  /\ MacroReady
  /\ w \in getAllWorkers
  /\ i \in 1..Len(loops[w])
  /\ loops[w][i].at = "http"
  /\ answers' = Min(answers + 1, MaxAnswers)
  /\ \E r \in {loops[w][i].item} :
     \E analysis \in {detectRateLimit(consecutiveLimits[w], request_log[w],
                                      rate_limit_events[w], resp)} :
     \E temporary \in {/\ ~resp.error.isError
                       /\ resp.data.type = "object"
                       /\ resp.data.hasError
                       /\ classified.isTemporaryError[resp]} :
     \E success \in {~resp.error.isError /\ ~temporary} :
        IF analysis.isRateLimited
        THEN \* handleRateLimit, queue.unshift(item), continue
             \E rec \in {recordRateLimitEvent(endpoint_statistics[w],
                                              rate_limit_events[w],
                                              analysis.cooldownMs)} :
             \E limited \in {handleRateLimit(state[w], analysis.cooldownMs)} :
             \E s \in {processQueue(unshift(queue[w], r), limited.state,
                                    limited.cooldownUntil, analysis.consecutive)} :
                /\ SetWorker(w, s, Continue(loops[w], i, s.loop))
                /\ isProcessing' = [isProcessing EXCEPT
                                      ![w] = IF s.loop.at = "exit" THEN FALSE ELSE @]
                /\ endpoint_statistics' = [endpoint_statistics EXCEPT ![w] = rec.stats]
                /\ rate_limit_events' = [rate_limit_events EXCEPT ![w] = rec.events]
                /\ contacted' = Contact(w, s.loop)
                /\ UNCHANGED <<endpoints, classified, process, input, output, request_log,
                               lastAnswer, routeVars, doneVars, rejections>>
        ELSE \* recordSuccess or recordFailure, item.resolve or item.reject
             \E rec \in {recordRequest(endpoint_statistics[w], request_log[w],
                                       success, responseTime)} :
             \E s \in {processQueue(queue[w], state[w], cooldownUntil[w],
                                    analysis.consecutive)} :
                /\ SetWorker(w, s, Continue(loops[w], i, s.loop))
                /\ isProcessing' = [isProcessing EXCEPT
                                      ![w] = IF s.loop.at = "exit" THEN FALSE ELSE @]
                /\ endpoint_statistics' = [endpoint_statistics EXCEPT ![w] = rec.stats]
                /\ request_log' = [request_log EXCEPT ![w] = rec.log]
                /\ contacted' = Contact(w, s.loop)
                /\ pc' = [pc EXCEPT ![r] = "settled"]
                /\ settled' = [settled EXCEPT
                     ![r] = IF temporary
                            THEN Reject(TemporaryError(w, resp.data.error))
                            ELSE IF resp.error.isError
                            THEN Reject(TransportError(resp.error))
                            ELSE Resolve(resp.data)]
                /\ lastAnswer' = [lastAnswer EXCEPT
                                    ![r] = [worker |-> w, resp |-> resp]]
                /\ rejections' = IF success THEN rejections
                                 ELSE [rejections EXCEPT ![r] = @ \cup {w}]
                /\ UNCHANGED <<endpoints, classified, process, input, output, rate_limit_events,
                               attempts, triedWorkers, lastError, availableWorkers, worker,
                               timer, doneVars>>

\* the sleep of loop i of worker w is over: processQueue continues
WorkerWake(w, i) ==
  /\ MacroReady
  /\ w \in getAllWorkers
  /\ i \in 1..Len(loops[w])
  /\ loops[w][i].at = "sleep"
  /\ loops[w][i].timer = 0
  /\ \E s \in {processQueue(queue[w], state[w], cooldownUntil[w],
                             consecutiveLimits[w])} :
        /\ SetWorker(w, s, Continue(loops[w], i, s.loop))
        /\ isProcessing' = [isProcessing EXCEPT
                              ![w] = IF s.loop.at = "exit" THEN FALSE ELSE @]
        /\ contacted' = Contact(w, s.loop)
  /\ UNCHANGED <<endpoints, classified, process, input, output, answers, lastAnswer, statsVars,
                 routeVars, doneVars, rejections>>

Elapse(deadline) == Max(0, deadline - TickMs)

\* the process after startup(): health checks started, database open, no signal
\* yet; waited is Date.now() - startTime of shutdown's loop, timer its sleep,
\* checks the runs of the health-check interval so far
Started ==
  [phase |-> "running", healthChecks |-> TRUE, database |-> "open", waited |-> 0,
   timer |-> 0, exitCode |-> Null, checks |-> 0]

\* TickMs pass for the shutdown loop
Passes(proc) ==
  IF proc.phase = "draining"
  THEN [proc EXCEPT !.waited = Min(@ + TickMs, shutdownTimeout + TickMs),
                    !.timer = Elapse(@)]
  ELSE proc

\* TickMs pass
Tick ==
  /\ MacroReady
  /\ \/ \E w \in getAllWorkers : cooldownUntil[w] > 0
     \/ \E w \in getAllWorkers : \E i \in 1..Len(loops[w]) : loops[w][i].timer > 0
     \/ \E r \in Calls : timer[r] > 0
     \/ process.timer > 0
  /\ cooldownUntil' = [w \in Workers |->
                         IF cooldownUntil[w] = Null THEN Null
                         ELSE Elapse(cooldownUntil[w])]
  /\ loops' = [w \in Workers |->
                 [i \in 1..Len(loops[w]) |->
                    [loops[w][i] EXCEPT !.timer = Elapse(@)]]]
  /\ timer' = [r \in Calls |-> Elapse(timer[r])]
  /\ process' = Passes(process)
  /\ UNCHANGED <<endpoints, classified, input, output, answers, lastAnswer, queue,
                 isProcessing, state, consecutiveLimits, statsVars, pc, attempts, triedWorkers, lastError, availableWorkers, worker,
                 settled, doneVars, contacted, rejections>>

\* ------------------------------------------------------------ specifications
Classification ==
  [isTemporaryError |->
     [resp \in AllResponses |-> resp.data.hasError /\ isTemporaryError(resp.data.error)],
   checkResponseBody |->
     [resp \in AllResponses |-> checkResponseBody(resp.data, resp.error)],
   checkTimeout |-> [resp \in AllResponses |-> checkTimeout(resp.error)]]

\* what an earlier run of the process may have left in the database
Histories == {<<>>, <<FALSE, FALSE, FALSE, FALSE>>}

StatisticsOf(log) ==
  [total_requests |-> Len(log),
   successful_requests |-> Cardinality({i \in 1..Len(log) : log[i]}),
   failed_requests |-> Cardinality({i \in 1..Len(log) : ~log[i]}),
   rate_limited_requests |-> 0,
   total_response_time_ms |-> 25 * Len(log),
   avg_response_time_ms |->
     IF Len(log) = 0 THEN Quotient(0, 1) ELSE Quotient(25 * Len(log), Len(log))]

Built(n, log, states, strikes) ==
  /\ endpoints = n
  /\ queue = [w \in Workers |-> <<>>]
  /\ isProcessing = [w \in Workers |-> FALSE]
  /\ state = states
  /\ cooldownUntil = [w \in Workers |-> Null]
  /\ loops = [w \in Workers |-> <<>>]
  /\ consecutiveLimits = strikes
  /\ request_log = [w \in Workers |-> IF w <= n THEN log ELSE <<>>]
  /\ endpoint_statistics =
       [w \in Workers |-> IF w <= n THEN StatisticsOf(log) ELSE NoStatistics]
  /\ rate_limit_events = [w \in Workers |-> <<>>]
  /\ pc = [r \in Calls |-> "idle"]
  /\ attempts = [r \in Calls |-> 0]
  /\ triedWorkers = [r \in Calls |-> {}]
  /\ lastError = [r \in Calls |-> NoReject]
  /\ availableWorkers = [r \in Calls |-> {}]
  /\ worker = [r \in Calls |-> 0]
  /\ settled = [r \in Calls |-> NoSettle]
  /\ timer = [r \in Calls |-> 0]
  /\ result = [r \in Calls |-> Undefined]
  /\ thrown = [r \in Calls |-> <<>>]
  /\ contacted = [r \in Calls |-> [w \in Workers |-> 0]]
  /\ rejections = [r \in Calls |-> {}]
  /\ answers = 0
  /\ lastAnswer = [r \in Calls |-> NoAnswer]
  /\ classified = Classification
  /\ process = Started

\* the state after the constructors: every worker HEALTHY, no strikes
Constructed(n, log) ==
  Built(n, log, [w \in Workers |-> HEALTHY], [w \in Workers |-> 0])

Fresh(n, log) ==
  /\ Constructed(n, log)
  /\ input = <<>>
  /\ output = 0

Init == \E n \in Workers : \E log \in Histories : Fresh(n, log)

\* Spec explores at most MaxAnswers upstream answers, and at most MaxEvents
\* rate-limit events per endpoint
RateLimits(w, resp) ==
  detectRateLimit(consecutiveLimits[w], request_log[w], rate_limit_events[w],
                  resp).isRateLimited

Next ==
  \/ \E r \in Calls : RouteRequest(r)
  \/ \E r \in Calls : RouterWake(r)
  \/ \E r \in Calls : RouterSettle(r)
  \/ \E w \in Workers : \E i \in 1..Len(loops[w]) : \E resp \in Responses :
       \E responseTime \in ResponseTimes :
         /\ answers < MaxAnswers
         /\ RateLimits(w, resp) => Len(rate_limit_events[w]) < MaxEvents
         /\ UpstreamRespond(w, i, resp, responseTime)
  \/ \E w \in Workers : \E i \in 1..Len(loops[w]) : WorkerWake(w, i)
  \/ Tick

Spec == Init /\ [][Next]_vars

\* Upstreams that never say "rate limit": a result, a permanent RPC error, a
\* temporary RPC error or a broken connection, each time they are asked. Every
\* axios.post settles and every setTimeout fires, as Node.js guarantees; whether
\* and when a client calls is up to the client.
QuietResponses == {ResultOk, MethodNotFound, TemporaryInternal, SocketHangUp}

Answer(w, i) ==
  \E resp \in QuietResponses : \E responseTime \in ResponseTimes :
    UpstreamRespond(w, i, resp, responseTime)

LiveNext ==
  \/ \E r \in Calls : RouteRequest(r)
  \/ \E r \in Calls : RouterWake(r)
  \/ \E r \in Calls : RouterSettle(r)
  \/ \E w \in Workers : \E i \in 1..Len(loops[w]) : Answer(w, i)
  \/ \E w \in Workers : \E i \in 1..Len(loops[w]) : WorkerWake(w, i)
  \/ Tick

Fairness ==
  /\ WF_vars(Tick)
  /\ \A r \in Calls : WF_vars(RouterWake(r)) /\ WF_vars(RouterSettle(r))
  /\ \A w \in Workers : WF_vars(Answer(w, 1)) /\ WF_vars(WorkerWake(w, 1))

LiveSpec == Init /\ [][LiveNext]_vars /\ Fairness

\* Cascading transients: a fresh database, endpoints [A, B, C] that answer every
\* request with the RPC error 19 after 25 or 50 ms, and one client call
CascadeResponseTimes == {25, 50}

CascadeInit == Fresh(3, <<>>)

CascadeAnswer(w, i) ==
  \E resp \in CascadeResponses : \E responseTime \in CascadeResponseTimes :
    UpstreamRespond(w, i, resp, responseTime)

CascadeNext ==
  \/ RouteRequest(1)
  \/ RouterSettle(1)
  \/ \E w \in Workers : \E i \in 1..Len(loops[w]) : CascadeAnswer(w, i)

\* Backoff: a fresh database and endpoints whose every answer is a result or
\* HTTP 503 without Retry-After
BackoffInit == \E n \in 1..2 : Fresh(n, <<>>)

BackoffAnswer(w, i) ==
  \E resp \in BackoffResponses : \E responseTime \in ResponseTimes :
    /\ answers < MaxAnswers
    /\ RateLimits(w, resp) => Len(rate_limit_events[w]) < MaxEvents
    /\ UpstreamRespond(w, i, resp, responseTime)

BackoffNext ==
  \/ \E r \in Calls : RouteRequest(r)
  \/ \E r \in Calls : RouterWake(r)
  \/ \E r \in Calls : RouterSettle(r)
  \/ \E w \in Workers : \E i \in 1..Len(loops[w]) : BackoffAnswer(w, i)
  \/ \E w \in Workers : \E i \in 1..Len(loops[w]) : WorkerWake(w, i)
  \/ Tick

BackoffSpec == BackoffInit /\ [][BackoffNext]_vars

\* Retry-After: a fresh database and endpoints whose every answer is a result or
\* HTTP 429 with the header Retry-After: 2
RetryAfterAnswer(w, i) ==
  \E resp \in RetryAfterResponses : \E responseTime \in ResponseTimes :
    /\ answers < MaxAnswers
    /\ RateLimits(w, resp) => Len(rate_limit_events[w]) < MaxEvents
    /\ UpstreamRespond(w, i, resp, responseTime)

RetryAfterNext ==
  \/ \E r \in Calls : RouteRequest(r)
  \/ \E r \in Calls : RouterWake(r)
  \/ \E r \in Calls : RouterSettle(r)
  \/ \E w \in Workers : \E i \in 1..Len(loops[w]) : RetryAfterAnswer(w, i)
  \/ \E w \in Workers : \E i \in 1..Len(loops[w]) : WorkerWake(w, i)
  \/ Tick

RetryAfterSpec == BackoffInit /\ [][RetryAfterNext]_vars

\* RateLimitDetector as its workers call it, over two endpoints and an empty
\* database, without the queues and the clock: a worker that is not cooling down
\* gets an answer and asks for the verdict, a rate-limited verdict is handled by
\* handleRateLimit, and a cooldown ends with resetConsecutiveLimits. output
\* holds, for each endpoint, the cooldowns of the verdicts since its last verdict
\* "not rate-limited", each with the retry-after value it was taken from (0 for
\* none); input holds the last answer judged.
DetectorInit ==
  /\ Constructed(2, <<>>)
  /\ input = <<>>
  /\ output = [w \in Workers |-> <<>>]

\* one counter for all endpoints
set_Shared(limits, endpointId, value) == [w \in DOMAIN limits |-> value]

\* this.consecutiveLimits.set(endpointId, value)
set(limits, endpointId, value) == [limits EXCEPT ![endpointId] = value]

Detect(w, resp) ==
  /\ w \in getAllWorkers
  /\ ~(state[w] = COOLING_DOWN)
  /\ \E analysis \in {detectRateLimit(consecutiveLimits[w], request_log[w],
                                      rate_limit_events[w], resp)} :
     /\ analysis.isRateLimited => Len(rate_limit_events[w]) < MaxEvents
     /\ consecutiveLimits' = set(consecutiveLimits, w, analysis.consecutive)
     /\ IF analysis.isRateLimited
        THEN \E rec \in {recordRateLimitEvent(endpoint_statistics[w],
                                              rate_limit_events[w],
                                              analysis.cooldownMs)} :
               /\ state' = [state EXCEPT ![w] = COOLING_DOWN]
               /\ cooldownUntil' = [cooldownUntil EXCEPT
                                      ![w] = now + analysis.cooldownMs]
               /\ endpoint_statistics' = [endpoint_statistics EXCEPT ![w] = rec.stats]
               /\ rate_limit_events' = [rate_limit_events EXCEPT ![w] = rec.events]
               /\ output' = [output EXCEPT
                               ![w] = Append(@, [cooldownMs |-> analysis.cooldownMs,
                                                 retryAfter |-> parseRetryAfter(resp.data)])]
        ELSE /\ output' = [output EXCEPT ![w] = <<>>]
             /\ UNCHANGED <<state, cooldownUntil, endpoint_statistics,
                            rate_limit_events>>
     /\ input' = <<w, resp>>
  /\ UNCHANGED <<endpoints, classified, process, answers, lastAnswer, queue, isProcessing, loops,
                 request_log, routeVars, doneVars, contacted, rejections>>

\* the cooldown of worker w is over: processQueue goes back to HEALTHY
CooldownEnds(w) ==
  /\ w \in getAllWorkers
  /\ state[w] = COOLING_DOWN
  /\ state' = [state EXCEPT ![w] = HEALTHY]
  /\ cooldownUntil' = [cooldownUntil EXCEPT ![w] = Null]
  /\ consecutiveLimits' = set(consecutiveLimits, w, 0)
  /\ UNCHANGED <<endpoints, classified, process, input, output, answers, lastAnswer, queue,
                 isProcessing, loops, statsVars, routeVars, doneVars, contacted,
                 rejections>>

DetectorNext ==
  \/ \E w \in Workers : \E resp \in DetectorResponses : Detect(w, resp)
  \/ \E w \in Workers : CooldownEnds(w)

DetectorSpec == DetectorInit /\ [][DetectorNext]_vars

\* StatisticsRepository on its own, over two endpoints and an empty database: any
\* sequence of at most MaxAnswers recordRequest and recordRateLimitEvent calls,
\* at most MaxEvents of the latter per endpoint; input holds the last call
RecordTimes == {25, 50}
Cooldowns == {minCooldownMs, maxCooldownMs}

RecordRequest(w, success, responseTimeMs) ==
  /\ w \in getAllWorkers
  /\ answers < MaxAnswers
  /\ answers' = answers + 1
  /\ \E rec \in {recordRequest(endpoint_statistics[w], request_log[w], success,
                                 responseTimeMs)} :
       /\ endpoint_statistics' = [endpoint_statistics EXCEPT ![w] = rec.stats]
       /\ request_log' = [request_log EXCEPT ![w] = rec.log]
  /\ input' = <<"recordRequest", w, success, responseTimeMs>>
  /\ UNCHANGED <<endpoints, classified, process, output, lastAnswer, workerVars,
                 rate_limit_events, routeVars, doneVars, contacted, rejections>>

RecordRateLimitEvent(w, cooldownMs) ==
  /\ w \in getAllWorkers
  /\ answers < MaxAnswers
  /\ answers' = answers + 1
  /\ Len(rate_limit_events[w]) < MaxEvents
  /\ \E rec \in {recordRateLimitEvent(endpoint_statistics[w], rate_limit_events[w],
                                        cooldownMs)} :
       /\ endpoint_statistics' = [endpoint_statistics EXCEPT ![w] = rec.stats]
       /\ rate_limit_events' = [rate_limit_events EXCEPT ![w] = rec.events]
  /\ input' = <<"recordRateLimitEvent", w, cooldownMs>>
  /\ UNCHANGED <<endpoints, classified, process, output, lastAnswer, workerVars,
                 request_log, routeVars, doneVars, contacted, rejections>>

StatisticsNext ==
  \/ \E w \in Workers : \E success \in BOOLEAN : \E responseTimeMs \in RecordTimes :
       RecordRequest(w, success, responseTimeMs)
  \/ \E w \in Workers : \E cooldownMs \in Cooldowns :
       RecordRateLimitEvent(w, cooldownMs)

StatisticsSpec == BackoffInit /\ [][StatisticsNext]_vars

\* The HTTP server in front of the router: one or two endpoints that never say
\* "rate limit", an empty database, and clients whose POST / bodies are drawn
\* from Bodies. input holds, for each call, req.body as express.json left it;
\* output holds the reply res sent, NoReply before. pc is "invalid" after the
\* handler answered without calling routeRequest.
NoBody == [present |-> FALSE, jsonrpc |-> "", method |-> "", id |-> Null]
Body(jsonrpc, method, id) ==
  [present |-> TRUE, jsonrpc |-> jsonrpc, method |-> method, id |-> id]

\* a string or number property that is absent, "" or 0 is falsy
Bodies ==
  {NoBody,
   Body("2.0", "eth_blockNumber", 1),
   Body("2.0", "eth_blockNumber", 0),
   Body("2.0", "eth_blockNumber", Null),
   Body("", "eth_blockNumber", 2),
   Body("2.0", "", 1)}

NoReply == [status |-> 0, kind |-> "none", code |-> 0, message |-> <<>>, id |-> Null,
            data |-> Undefined]

\* res.status(status).json({jsonrpc: '2.0', error: {code, message}, id})
ErrorReply(status, code, message, id) ==
  [status |-> status, kind |-> "error", code |-> code, message |-> message, id |-> id,
   data |-> Undefined]

\* res.json(result)
Forward(data) ==
  [status |-> 200, kind |-> "forward", code |-> 0, message |-> <<>>, id |-> Null,
   data |-> data]

\* req.body?.id || null
idOrNull(body) == IF body.present /\ body.id # Null /\ body.id # 0 THEN body.id ELSE Null

\* the handler's two validation tests: the reply it sends, NoReply for a valid body
validate_Always200(body) ==
  IF ~body.present \/ body.jsonrpc = ""
  THEN ErrorReply(200, -32600, <<"Invalid Request: missing jsonrpc field">>,
                  idOrNull(body))
  ELSE IF body.method = ""
  THEN ErrorReply(200, -32600, <<"Invalid Request: missing method field">>,
                  idOrNull(body))
  ELSE NoReply

validate(body) ==
  IF ~body.present \/ body.jsonrpc = ""
  THEN ErrorReply(400, -32600, <<"Invalid Request: missing jsonrpc field">>,
                  idOrNull(body))
  ELSE IF body.method = ""
  THEN ErrorReply(400, -32600, <<"Invalid Request: missing method field">>,
                  idOrNull(body))
  ELSE NoReply

\* the catch branch answering with the envelope of an internal error
internalError_Status500(message, body) ==
  ErrorReply(500, -32603, <<"Internal error: ">> \o message, idOrNull(body))

internalError(message, body) ==
  ErrorReply(200, -32603, <<"Internal error: ">> \o message, idOrNull(body))

IngressInit ==
  /\ \E n \in 1..2 : Constructed(n, <<>>)
  /\ input \in [Calls -> Bodies]
  /\ output = [r \in Calls |-> NoReply]

\* POST / with a valid body: the handler calls router.routeRequest(req.body)
Post(r) ==
  /\ validate(input[r]) = NoReply
  /\ RouteRequest(r)

\* POST / with an invalid body: the handler answers and returns
Invalid(r) ==
  /\ MacroReady
  /\ pc[r] = "idle"
  /\ \A q \in Calls : q < r => pc[q] # "idle"
  /\ validate(input[r]) # NoReply
  /\ output' = [output EXCEPT ![r] = validate(input[r])]
  /\ pc' = [pc EXCEPT ![r] = "invalid"]
  /\ UNCHANGED <<endpoints, classified, process, input, answers, lastAnswer, workerVars,
                 statsVars, attempts, triedWorkers, lastError, availableWorkers, worker,
                 settled, timer, doneVars, contacted, rejections>>

\* the handler resumes after await router.routeRequest(req.body)
Reply(r) ==
  /\ pc[r] \in {"returned", "failed"}
  /\ output[r] = NoReply
  /\ output' = [output EXCEPT
                  ![r] = IF pc[r] = "returned" THEN Forward(result[r])
                         ELSE internalError(thrown[r], input[r])]
  /\ UNCHANGED <<endpoints, classified, process, input, answers, lastAnswer, workerVars,
                 statsVars, routeVars, doneVars, contacted, rejections>>

IngressNext ==
  \/ \E r \in Calls : Post(r)
  \/ \E r \in Calls : Invalid(r)
  \/ \E r \in Calls : RouterSettle(r)
  \/ \E w \in Workers : \E i \in 1..Len(loops[w]) : Answer(w, i)
  \/ \E r \in Calls : Reply(r)

IngressSpec == IngressInit /\ [][IngressNext]_vars

\* detectRateLimit on its own: one endpoint whose request log grows by requests
\* recorded as successes or failures, and answers of every kind handed to the
\* detector. input holds the call (endpoint, answer, the request log it saw),
\* output what detectRateLimit returned.
VerdictInit ==
  /\ Constructed(1, <<>>)
  /\ input = <<>>
  /\ output = <<>>

Judge(w, resp) ==
  /\ w \in getAllWorkers
  /\ consecutiveLimits[w] < MaxEvents
  /\ \E analysis \in {detectRateLimit(consecutiveLimits[w], request_log[w],
                                      rate_limit_events[w], resp)} :
       /\ consecutiveLimits' = set(consecutiveLimits, w, analysis.consecutive)
       /\ output' = [isRateLimited |-> analysis.isRateLimited,
                     cooldownMs |-> analysis.cooldownMs,
                     confidence |-> analysis.confidence,
                     signals |-> analysis.signals]
  /\ input' = <<"detectRateLimit", w, resp, request_log[w]>>
  /\ UNCHANGED <<endpoints, classified, process, answers, lastAnswer, queue, isProcessing,
                 state, cooldownUntil, loops, statsVars, routeVars, doneVars,
                 contacted, rejections>>

VerdictNext ==
  \/ \E w \in Workers : \E resp \in Responses : Judge(w, resp)
  \/ \E w \in Workers : \E success \in BOOLEAN : \E responseTimeMs \in ResponseTimes :
       RecordRequest(w, success, responseTimeMs)

VerdictSpec == VerdictInit /\ [][VerdictNext]_vars

\* Shutdown: the distributor over one or two endpoints that answer with a result
\* or HTTP 503, and a SIGINT or SIGTERM at any moment. After process.exit nothing
\* runs any more.
poolHasActiveRequests == \E w \in getAllWorkers : hasActiveRequests(w)

\* dbManager.close() and process.exit(0)
Exit(proc) == [proc EXCEPT !.phase = "exited", !.database = "closed", !.exitCode = 0]

\* one test of shutdown's while loop, up to its sleep or to the exit
drain(proc) ==
  IF ~poolHasActiveRequests THEN Exit(proc)
  ELSE IF proc.waited > shutdownTimeout THEN Exit(proc)
  ELSE [proc EXCEPT !.phase = "draining", !.timer = ShutdownSleepMs]

\* SIGINT or SIGTERM arrives: server.close, stopHealthChecks, first loop test
Signal ==
  /\ MacroReady
  /\ process.phase = "running"
  /\ process' = drain([process EXCEPT !.healthChecks = FALSE, !.waited = 0])
  /\ UNCHANGED <<endpoints, classified, input, output, answers, lastAnswer, workerVars,
                 statsVars, routeVars, doneVars, contacted, rejections>>

\* shutdown's sleep(100) is over
ShutdownWake ==
  /\ MacroReady
  /\ process.phase = "draining"
  /\ process.timer = 0
  /\ process' = drain(process)
  /\ UNCHANGED <<endpoints, classified, input, output, answers, lastAnswer, workerVars,
                 statsVars, routeVars, doneVars, contacted, rejections>>

\* the health-check interval fires: the workers in state ERROR are probed with
\* eth_blockNumber, answered by resp, and are HEALTHY again if it has a result
HealthCheck(resp) ==
  /\ MacroReady
  /\ process.healthChecks
  /\ process.checks < MaxChecks
  /\ process' = [process EXCEPT !.checks = @ + 1]
  /\ \E passed \in {{w \in getAllWorkers :
                       /\ state[w] = ERROR
                       /\ ~resp.error.isError
                       /\ resp.data.type = "object"
                       /\ resp.data.result # ""}} :
       /\ state' = [w \in Workers |-> IF w \in passed THEN HEALTHY ELSE state[w]]
       /\ cooldownUntil' = [w \in Workers |->
                              IF w \in passed THEN Null ELSE cooldownUntil[w]]
  /\ UNCHANGED <<endpoints, classified, input, output, answers, lastAnswer, queue,
                 isProcessing, loops, consecutiveLimits, statsVars, routeVars, doneVars,
                 contacted, rejections>>

ShutdownNext ==
  /\ process.phase # "exited"
  /\ \/ \E r \in Calls : process.phase = "running" /\ RouteRequest(r)
     \/ \E r \in Calls : RouterWake(r)
     \/ \E r \in Calls : RouterSettle(r)
     \/ \E w \in Workers : \E i \in 1..Len(loops[w]) : BackoffAnswer(w, i)
     \/ \E w \in Workers : \E i \in 1..Len(loops[w]) : WorkerWake(w, i)
     \/ Tick
     \/ Signal
     \/ ShutdownWake
     \/ \E resp \in BackoffResponses : HealthCheck(resp)

ShutdownSpec == BackoffInit /\ [][ShutdownNext]_vars

\* The health checker at work: the workers start HEALTHY or ERROR (the state
\* the interval callback looks for), an ERROR worker with 0 or 1 strikes; the
\* router and the workers run as in BackoffSpec, for one client call. output
\* holds the interval callbacks that are awaiting a probe, each as the worker
\* it probes.
ProbeResponses == {ResultOk, MethodNotFound, ServiceUnavailable, AxiosTimeout}

ProbeInit ==
  /\ \E n \in 1..2 :
     \E states \in [Workers -> {HEALTHY, ERROR}] :
     \E strikes \in [Workers -> 0..1] :
       /\ \A w \in Workers : w > n => states[w] = HEALTHY
       /\ \A w \in Workers : states[w] = HEALTHY => strikes[w] = 0
       /\ Built(n, <<>>, states, strikes)
  /\ input = <<>>
  /\ output = <<>>

\* the callback's loop looks at the first worker it meets, whatever its state
scan_Any(from, states) ==
  IF from \in getAllWorkers THEN from ELSE 0

\* the callback's for loop from worker from on: the first worker in state ERROR,
\* which it probes, or 0 when it reaches the end
scan(from, states) ==
  IF \E w \in getAllWorkers : w >= from /\ states[w] = ERROR
  THEN CHOOSE w \in getAllWorkers :
         /\ w >= from /\ states[w] = ERROR
         /\ \A v \in getAllWorkers : (v >= from /\ states[v] = ERROR) => w <= v
  ELSE 0

\* the health-check interval fires
IntervalFires ==
  /\ MacroReady
  /\ process.healthChecks
  /\ process.checks < MaxProbes
  /\ process' = [process EXCEPT !.checks = @ + 1]
  /\ \E w \in {scan(1, state)} :
       output' = IF w = 0 THEN output ELSE Append(output, w)
  /\ UNCHANGED <<endpoints, classified, input, answers, lastAnswer, workerVars,
                 statsVars, routeVars, doneVars, contacted, rejections>>

\* worker.makeRequest of performHealthCheck in callback c comes back with resp,
\* and the callback runs on to its next probe or to its end
ProbeAnswer(c, resp) ==
  /\ MacroReady
  /\ c \in 1..Len(output)
  /\ \E w \in {output[c]} :
     \E passed \in {/\ ~resp.error.isError
                     /\ resp.data.type = "object"
                     /\ resp.data.result # ""} :
       /\ state' = IF passed THEN [state EXCEPT ![w] = HEALTHY] ELSE state
       /\ cooldownUntil' = IF passed THEN [cooldownUntil EXCEPT ![w] = Null]
                           ELSE cooldownUntil
       /\ \E next \in {scan(w + 1, state')} :
            output' = IF next = 0 THEN RemoveAt(output, c)
                      ELSE [output EXCEPT ![c] = next]
  /\ UNCHANGED <<endpoints, classified, process, input, answers, lastAnswer, queue,
                 isProcessing, loops, consecutiveLimits, statsVars, routeVars, doneVars,
                 contacted, rejections>>

ProbeNext ==
  \/ RouteRequest(1)
  \/ RouterWake(1)
  \/ RouterSettle(1)
  \/ \E w \in Workers : \E i \in 1..Len(loops[w]) : BackoffAnswer(w, i)
  \/ \E w \in Workers : \E i \in 1..Len(loops[w]) : WorkerWake(w, i)
  \/ Tick
  \/ IntervalFires
  \/ \E c \in 1..Len(output) : \E resp \in ProbeResponses : ProbeAnswer(c, resp)

ProbeSpec == ProbeInit /\ [][ProbeNext]_vars

\* selectWorker on its own: three HEALTHY workers whose queues hold up to
\* MaxQueueLen items of other callers, and any non-empty list of candidates in
\* configuration order
QueueLengths == [1..3 -> 0..MaxQueueLen]

SelectInit ==
  \E lengths \in QueueLengths :
    /\ endpoints = 3
    /\ queue = [w \in Workers |->
                  IF w <= 3 THEN [i \in 1..lengths[w] |-> 1] ELSE <<>>]
    /\ isProcessing = [w \in Workers |-> FALSE]
    /\ state = [w \in Workers |-> HEALTHY]
    /\ cooldownUntil = [w \in Workers |-> Null]
    /\ loops = [w \in Workers |-> <<>>]
    /\ consecutiveLimits = [w \in Workers |-> 0]
    /\ request_log = [w \in Workers |-> <<>>]
    /\ endpoint_statistics = [w \in Workers |-> NoStatistics]
    /\ rate_limit_events = [w \in Workers |-> <<>>]
    /\ pc = [r \in Calls |-> "idle"]
    /\ attempts = [r \in Calls |-> 0]
    /\ triedWorkers = [r \in Calls |-> {}]
    /\ lastError = [r \in Calls |-> NoReject]
    /\ availableWorkers = [r \in Calls |-> {}]
    /\ worker = [r \in Calls |-> 0]
    /\ settled = [r \in Calls |-> NoSettle]
    /\ timer = [r \in Calls |-> 0]
    /\ result = [r \in Calls |-> Undefined]
    /\ thrown = [r \in Calls |-> <<>>]
    /\ contacted = [r \in Calls |-> [w \in Workers |-> 0]]
    /\ rejections = [r \in Calls |-> {}]
    /\ answers = 0
    /\ lastAnswer = [r \in Calls |-> NoAnswer]
    /\ input = <<>>
    /\ output = 0
    /\ classified = Classification
  /\ process = Started

Select(candidates) ==
  /\ candidates # {}
  /\ input' = InOrder(candidates)
  /\ output' = selectWorker(InOrder(candidates))
  /\ UNCHANGED <<endpoints, classified, process, answers, lastAnswer, workerVars, statsVars,
                 routeVars, doneVars, settled, contacted, rejections>>

SelectNext == \E candidates \in SUBSET getAllWorkers : Select(candidates)

SelectSpec == SelectInit /\ [][SelectNext]_vars

CascadeSpec ==
  /\ CascadeInit
  /\ [][CascadeNext]_vars
  /\ WF_vars(RouterSettle(1))
  /\ \A w \in Workers : WF_vars(CascadeAnswer(w, 1))

\* --------------------------------------------------------------- properties
InFlight(w) == {i \in 1..Len(loops[w]) : loops[w][i].at = "http"}

\* C1: every worker has at most one upstream request in flight and at most one
\* drain loop running, however many calls enqueue on it concurrently
C1_SingleFlight ==
  \A w \in Workers :
    /\ Len(loops[w]) <= 1
    /\ Cardinality(InFlight(w)) <= 1
    /\ Len(loops[w]) = 1 <=> isProcessing[w]

\* a call was enqueued on a worker whose drain loop has a request in flight
C1_Witness ==
  \E w \in Workers : \E r \in Calls :
    /\ InFlight(w) # {}
    /\ Len(queue[w]) >= 1
    /\ pc[r] = "await" /\ worker[r] = w /\ queue[w][1] = r
    /\ loops[w][1].item # r

Called(r) == pc[r] \in {"await", "settled", "sleep"}

\* C2: with upstreams that always answer and timers that always fire, every
\* routeRequest call eventually returns a body or fails with "All RPC endpoints
\* failed", whatever requests the endpoints served before
C2_RouteRequestEnds ==
  \A r \in Calls : Called(r) ~> pc[r] \in {"returned", "failed"}

\* routeRequest of call r runs one iteration of its loop in this step
Iterates(r) ==
  \/ pc[r] = "idle" /\ pc'[r] # "idle"
  \/ pc[r] = "sleep" /\ timer[r] = 0 /\ (pc'[r] # "sleep" \/ timer'[r] > 0)
  \/ pc[r] = "settled" /\ pc'[r] \notin {"returned", "failed"}

\* C3: an iteration of routeRequest that finds no worker available neither
\* returns nor throws: the call sleeps min(shortest recovery time, 5 s), 5 s when
\* that time is 0, stays asleep until the timer fires and then looks again; and
\* it throws only straight after a worker rejected its request
C3_ConnectionHold ==
  [][\A r \in Calls :
       /\ Iterates(r) /\ getAvailableWorkers = {} =>
            /\ pc'[r] = "sleep"
            /\ timer'[r] = IF getShortestRecoveryTime = 0 THEN 5000
                           ELSE Min(getShortestRecoveryTime, 5000)
       /\ pc[r] = "sleep" /\ timer[r] > 0 => pc'[r] = "sleep"
       /\ pc[r] = "sleep" /\ pc'[r] # "sleep" => pc'[r] \in {"await", "settled"}
       /\ pc[r] # "failed" /\ pc'[r] = "failed" =>
            /\ pc[r] = "settled"
            /\ settled[r].kind = "reject"
            /\ worker[r] \in rejections[r]
       /\ pc[r] # "returned" /\ pc'[r] = "returned" =>
            pc[r] = "settled" /\ settled[r].kind = "resolve"]_vars

\* a held call woke up, found the only endpoints still cooling down and sleeps
\* again: the full 5 s, since the first endpoint recovers later than that
C3_Witness ==
  \E r \in Calls :
    /\ pc[r] = "sleep" /\ timer[r] = RouterSleepMs
    /\ attempts[r] >= 2
    /\ getShortestRecoveryTime > RouterSleepMs

\* C4: after a worker rejected the request of call r, if some available worker
\* is not in the call's tried set at the next iteration, the request goes to
\* such a worker next, never to one in tried; and a success of the worker the
\* request is on is what the call returns
C4_Failover ==
  [][\A r \in Calls :
       /\ ( /\ pc[r] = "settled" /\ settled[r].kind = "reject"
            /\ pc'[r] \in {"await", "settled"}
            /\ getAvailableWorkers \ triedWorkers'[r] # {} ) =>
            worker'[r] \in getAvailableWorkers \ triedWorkers'[r]
       /\ pc[r] = "await" /\ pc'[r] = "settled" /\ settled'[r].kind = "resolve" =>
            /\ lastAnswer'[r].worker = worker[r]
            /\ settled'[r].data = lastAnswer'[r].resp.data
       /\ pc[r] = "settled" /\ settled[r].kind = "resolve" =>
            /\ pc'[r] = "returned"
            /\ result'[r] = lastAnswer[r].resp.data]_vars

\* a call that one worker rejected got a result from another worker
C4_Witness ==
  \E r \in Calls :
    /\ pc[r] = "settled" /\ settled[r].kind = "resolve"
    /\ triedWorkers[r] # {}
    /\ worker[r] \notin triedWorkers[r]
    /\ lastAnswer[r] = [worker |-> worker[r], resp |-> ResultOk]

\* C5: routeRequest fails with "All RPC endpoints failed" only after every
\* configured worker has rejected this request at least once
C5_AllEndpointsFailed ==
  [][\A r \in Calls :
       pc[r] # "failed" /\ pc'[r] = "failed" =>
         /\ SubSeq(thrown'[r], 1, 1) = <<"All RPC endpoints failed: ">>
         /\ getAllWorkers \subseteq rejections[r]]_vars

\* C6: every upstream request made for a route call goes to a configured
\* endpoint, and no configured endpoint gets more than two of them for that call
C6_ContactedAtMostTwice ==
  \A r \in Calls : \A w \in Workers :
    /\ contacted[r][w] > 0 => w \in getAllWorkers
    /\ contacted[r][w] <= 2

failures == Sum([w \in Workers |-> endpoint_statistics[w].failed_requests])

documentedCodes == {14, 19, -32000, -32603, 429, 503}

documentedKeywords ==
  <<"temporary", "retry", "timeout", "timed out", "unavailable", "connection",
    "network", "try again", "overloaded", "capacity", "grpc", "cancel">>

documentedTemporary(rpcError) ==
  \/ rpcError.code \in documentedCodes
  \/ \E k \in 1..Len(documentedKeywords) :
       includes(toLowerCase(chars[rpcError.message]), chars[documentedKeywords[k]])

\* an answer that is a well-formed JSON-RPC error and no transient one
Permanent(resp) ==
  /\ ~resp.error.isError
  /\ resp.data.type = "object"
  /\ resp.data.hasError
  /\ ~documentedTemporary(resp.data.error)

\* C8: when an upstream answers with a well-formed JSON-RPC error that is taken
\* neither for a rate limit nor for a transient error, the worker records a
\* success (successful counter + 1, a success row in the log), the route call
\* returns that exact body, and no other endpoint is contacted for the request
C8_PermanentErrorForwarded ==
  [][\A r \in Calls :
       /\ ( /\ pc[r] = "await" /\ pc'[r] = "settled"
            /\ Permanent(lastAnswer'[r].resp) ) =>
            LET w == worker[r]
                before == endpoint_statistics[w]
                after == endpoint_statistics'[w]
            IN /\ lastAnswer'[r].worker = w
               /\ settled'[r] = Resolve(lastAnswer'[r].resp.data)
               /\ after.successful_requests = before.successful_requests + 1
               /\ after.total_requests = before.total_requests + 1
               /\ after.failed_requests = before.failed_requests
               /\ request_log'[w][Len(request_log'[w])] = TRUE
               /\ contacted'[r] = contacted[r]
       /\ pc[r] = "settled" /\ Permanent(lastAnswer[r].resp) =>
            /\ pc'[r] = "returned"
            /\ result'[r] = lastAnswer[r].resp.data
            /\ contacted'[r] = contacted[r]
       /\ pc[r] = "returned" =>
            /\ pc'[r] = "returned"
            /\ result'[r] = result[r]
            /\ contacted'[r] = contacted[r]]_vars

\* of two endpoints A answered "Method not found" to a call's first request, and
\* the call returned that envelope without B ever being contacted
C8_Witness ==
  \E r \in Calls :
    /\ endpoints = 2
    /\ pc[r] = "returned"
    /\ result[r] = MethodNotFound.data
    /\ contacted[r] = [w \in Workers |-> IF w = 1 THEN 1 ELSE 0]
    /\ endpoint_statistics[1].successful_requests = 1
    /\ request_log[1] = <<TRUE>>

\* C9: isTemporaryError is true exactly for the documented codes and keywords,
\* so that an answer {code: 14, "GRPC Context cancellation"} is rejected as
\* temporary and never becomes the result of a route call
C9_TransientClassification ==
  \A r \in Calls :
    /\ lastAnswer[r].worker # 0 /\ lastAnswer[r].resp.data.hasError =>
         ( classified.isTemporaryError[lastAnswer[r].resp]
             <=> documentedTemporary(lastAnswer[r].resp.data.error) )
    /\ pc[r] = "returned" => result[r] # GrpcCancelled.data

\* C10: of the candidate workers selectWorker returns one with the smallest
\* queue length, and of those with the smallest length the first in
\* configuration order
C10_LeastLoaded ==
  input # <<>> =>
    /\ output \in Range(input)
    /\ \A v \in Range(input) :
         \/ getQueueLength(output) < getQueueLength(v)
         \/ getQueueLength(output) = getQueueLength(v) /\ output <= v

\* queues A = 3, B = 1, C = 2, all three candidates: B is selected
C10_Witness ==
  /\ [w \in 1..3 |-> getQueueLength(w)] = <<3, 1, 2>>
  /\ input = <<1, 2, 3>>
  /\ output = 2

\* C11: the queue of a worker never holds more than maxQueueSize items, also
\* after a rate-limited item is put back at its head
C11_QueueBounded ==
  \A w \in Workers : getQueueLength(w) <= maxQueueSize

\* C12: queueRequest on a worker whose queue holds maxQueueSize items or more
\* rejects at once with "Queue full", leaves the worker's queue, state,
\* cooldownUntil and isProcessing as they were, and starts no drain loop and no
\* upstream request
C12_QueueFullRejects ==
  [][\A r \in Calls : \A w \in Workers :
       /\ Iterates(r)
       /\ pc'[r] \in {"await", "settled"}
       /\ worker'[r] = w
       /\ Len(queue[w]) >= maxQueueSize
       => /\ pc'[r] = "settled"
          /\ settled'[r].kind = "reject"
          /\ settled'[r].error.message = <<"Queue full">>
          /\ queue'[w] = queue[w]
          /\ state'[w] = state[w]
          /\ cooldownUntil'[w] = cooldownUntil[w]
          /\ isProcessing'[w] = isProcessing[w]
          /\ loops'[w] = loops[w]
          /\ contacted' = contacted]_vars

\* a call was rejected with "Queue full" by a worker whose queue is full
C12_Witness ==
  \E r \in Calls :
    /\ pc[r] = "settled"
    /\ settled[r] = Reject(QueueFull)
    /\ worker[r] \in getAllWorkers
    /\ Len(queue[worker[r]]) >= maxQueueSize

\* C13: an endpoint without history that answers HTTP 503 without Retry-After
\* to its worker's attempts in a row gets the cooldowns minCooldownMs,
\* minCooldownMs * 2, minCooldownMs * 4, ... capped at maxCooldownMs, in this
\* order (as long as no attempt succeeded)
C13_ExponentialBackoff ==
  \A w \in Workers :
    request_log[w] = <<>> =>
      \A k \in 1..Len(rate_limit_events[w]) :
        rate_limit_events[w][k] =
          Min(minCooldownMs * Pow(backoffMultiplier, k - 1), maxCooldownMs)

\* C14: when every rate-limited answer carries the HTTP header Retry-After: 2,
\* every cooldown the detector chooses and the worker applies is
\* min(2 * 1000, maxCooldownMs) ms, whatever the strike count: the
\* rate_limit_events rows hold it and no worker cools down for longer
C14_RetryAfterPrecedence ==
  \A w \in Workers :
    /\ \A k \in 1..Len(rate_limit_events[w]) :
         rate_limit_events[w][k] = Min(2 * 1000, maxCooldownMs)
    /\ cooldownUntil[w] <= now + Min(2 * 1000, maxCooldownMs)

\* the cooldowns of a run of verdicts never decrease and lie between
\* minCooldownMs and maxCooldownMs
Monotone(run) ==
  /\ \A k \in 1..Len(run) :
       minCooldownMs <= run[k].cooldownMs /\ run[k].cooldownMs <= maxCooldownMs
  /\ \A j, k \in 1..Len(run) : j < k => run[j].cooldownMs <= run[k].cooldownMs

HandlesRateLimit(w) ==
  \E i \in 1..Len(loops[w]) : \E resp \in Responses :
    \E responseTime \in ResponseTimes :
      RateLimits(w, resp) /\ UpstreamRespond(w, i, resp, responseTime)

\* C17: each endpoint has as many rate_limit_events rows as its
\* rate_limited_requests counter says, and both count the rate-limit verdicts its
\* worker has handled: a step that handles one adds one row and one to the
\* counter, every other step leaves both as they are
C17_OneRowPerDetection ==
  [][\A w \in Workers :
       /\ Len(rate_limit_events[w]) = endpoint_statistics[w].rate_limited_requests
       /\ Len(rate_limit_events'[w]) = endpoint_statistics'[w].rate_limited_requests
       /\ IF HandlesRateLimit(w)
          THEN /\ Len(rate_limit_events'[w]) = Len(rate_limit_events[w]) + 1
               /\ endpoint_statistics'[w].rate_limited_requests =
                    endpoint_statistics[w].rate_limited_requests + 1
          ELSE /\ rate_limit_events'[w] = rate_limit_events[w]
               /\ endpoint_statistics'[w].rate_limited_requests =
                    endpoint_statistics[w].rate_limited_requests]_vars

\* a worker has handled its second rate-limit verdict and is cooling down
C17_Witness ==
  \E w \in getAllWorkers :
    /\ state[w] = COOLING_DOWN
    /\ Len(rate_limit_events[w]) = 2
    /\ endpoint_statistics[w].rate_limited_requests = 2

\* recordRequest is called for endpoint w in this step
RecordsRequest(w) ==
  \E success \in BOOLEAN : \E responseTimeMs \in RecordTimes :
    RecordRequest(w, success, responseTimeMs)

\* total = successful + failed, and avg = totalResponseTime / total when total > 0
Consistent(stats) ==
  /\ stats.total_requests = stats.successful_requests + stats.failed_requests
  /\ stats.total_requests > 0 =>
       /\ stats.avg_response_time_ms[2] # 0
       /\ stats.avg_response_time_ms[1] * stats.total_requests
            = stats.total_response_time_ms * stats.avg_response_time_ms[2]

\* C18: after any sequence of recordRequest and recordRateLimitEvent calls the
\* statistics of every endpoint have total = successful + failed and, when
\* total > 0, avg = totalResponseTime / total; each recordRequest adds one to
\* total and one to exactly one of successful and failed, and
\* recordRateLimitEvent changes none of the three
C18_StatisticsConsistent ==
  [][\A w \in Workers :
       LET old == endpoint_statistics[w]
           new == endpoint_statistics'[w]
       IN /\ Consistent(old)
          /\ Consistent(new)
          /\ IF RecordsRequest(w)
             THEN /\ new.total_requests = old.total_requests + 1
                  /\ \/ /\ new.successful_requests = old.successful_requests + 1
                        /\ new.failed_requests = old.failed_requests
                     \/ /\ new.successful_requests = old.successful_requests
                        /\ new.failed_requests = old.failed_requests + 1
             ELSE /\ new.total_requests = old.total_requests
                  /\ new.successful_requests = old.successful_requests
                  /\ new.failed_requests = old.failed_requests]_vars

\* an endpoint with successes, a failure, requests of 25 and of 50 ms and a
\* rate-limit event recorded last
C18_Witness ==
  \E w \in getAllWorkers :
    /\ input = <<"recordRateLimitEvent", w, maxCooldownMs>>
    /\ endpoint_statistics[w].successful_requests = 2
    /\ endpoint_statistics[w].failed_requests = 1
    /\ endpoint_statistics[w].total_response_time_ms = 100
    /\ endpoint_statistics[w].rate_limited_requests = 1

\* cooldownUntil of worker w is set and lies in the future
Cooling(w) == cooldownUntil[w] # Null /\ cooldownUntil[w] > now

\* C19: a worker whose cooldownUntil is set and later than now is not available,
\* and no iteration of routeRequest hands a request to such a worker
C19_CoolingUnavailable ==
  [][\A w \in Workers :
       /\ Cooling(w) => ~isAvailable(w)
       /\ (Cooling(w) => ~isAvailable(w))'
       /\ \A r \in Calls :
            Iterates(r) /\ pc'[r] \in {"await", "settled"} /\ worker'[r] = w
              => ~Cooling(w)]_vars

\* a call was handed to the second endpoint while the first, which holds a
\* re-queued request, is still cooling down
C19_Witness ==
  \E r \in Calls :
    /\ endpoints >= 2
    /\ Cooling(1)
    /\ Len(queue[1]) = 1
    /\ pc[r] = "await"
    /\ worker[r] = 2
    /\ queue[1][1] # r
    /\ contacted[r][1] = 0

\* C20: when routeRequest returns, what it returns is the body of an upstream
\* response, unchanged: the response that the worker the call was waiting for,
\* a configured endpoint contacted for this call, received last for the call's
\* request
C20_Transparency ==
  [][\A r \in Calls :
       pc[r] # "returned" /\ pc'[r] = "returned" =>
         LET w == lastAnswer[r].worker
         IN /\ w \in getAllWorkers
            /\ w = worker[r]
            /\ contacted[r][w] >= 1
            /\ lastAnswer[r].resp \in Responses
            /\ ~lastAnswer[r].resp.error.isError
            /\ result'[r] = lastAnswer[r].resp.data]_vars

\* a call returned the result of an upstream after another endpoint had rejected
\* its request
C20_Witness ==
  \E r \in Calls :
    /\ pc[r] = "returned"
    /\ result[r] = ResultOk.data
    /\ rejections[r] # {}
    /\ \E w \in getAllWorkers : w \notin rejections[r] /\ contacted[r][w] = 1

\* the body of call r has no jsonrpc field, or no method field
LacksJsonrpc(r) == ~input[r].present \/ input[r].jsonrpc = ""
LacksMethod(r) == ~input[r].present \/ input[r].method = ""

C22_MissingJsonrpcIs200 ==
  \A r \in Calls :
    LacksJsonrpc(r) /\ output[r] # NoReply =>
      output[r].status = 200 /\ output[r].kind = "error"

\* C23: when routeRequest has thrown, the handler answers HTTP 200 with the
\* envelope of error -32603 whose message is "Internal error: " followed by the
\* thrown "All RPC endpoints failed: ..." message and whose id is the request's
\* id or null; and every answer to a request that reached the router has
\* status 200
C23_InternalErrorIs200 ==
  [][\A r \in Calls :
       /\ pc[r] = "failed" /\ output[r] = NoReply /\ output'[r] # NoReply =>
            /\ output'[r].status = 200
            /\ output'[r].kind = "error"
            /\ output'[r].code = -32603
            /\ output'[r].message = <<"Internal error: ">> \o thrown[r]
            /\ thrown[r][1] = "All RPC endpoints failed: "
            /\ Len(thrown[r]) > 1
            /\ output'[r].id \in {input[r].id, Null}
       /\ pc'[r] \in {"returned", "failed"} /\ output'[r] # NoReply =>
            output'[r].status = 200]_vars

\* a request with id 1 whose every attempt failed was answered with status 200
\* and the envelope of error -32603 carrying id 1
C23_Witness ==
  \E r \in Calls :
    /\ pc[r] = "failed"
    /\ input[r].id = 1
    /\ output[r].status = 200
    /\ output[r].code = -32603
    /\ output[r].id = 1
    /\ output[r].message[2] = "All RPC endpoints failed: "

\* C24: once the process has exited after a signal, the health checks are
\* stopped and the database is closed, and if its exit code is 0 no worker has a
\* request in flight or in its queue
C24_GracefulShutdown ==
  process.phase = "exited" =>
    /\ ~process.healthChecks
    /\ process.database = "closed"
    /\ process.exitCode = 0 => ~poolHasActiveRequests

\* C25: a step in which a worker gets a rate-limit verdict for its item, from a
\* response or a transport error, appends one rate_limit_events row holding the
\* chosen cooldown, leaves the worker COOLING_DOWN until now + that cooldown with
\* the item back at the head of its queue, and settles nothing: the item's
\* promise, the router's position and the recorded rejections stay as they were
C25_RateLimitBranch ==
  [][\A w \in Workers : \A i \in 1..Len(loops[w]) : \A resp \in Responses :
       \A responseTime \in ResponseTimes :
         RateLimits(w, resp) /\ UpstreamRespond(w, i, resp, responseTime) =>
           /\ Len(rate_limit_events'[w]) = Len(rate_limit_events[w]) + 1
           /\ SubSeq(rate_limit_events'[w], 1, Len(rate_limit_events[w]))
                = rate_limit_events[w]
           /\ state'[w] = COOLING_DOWN
           /\ cooldownUntil'[w] =
                now + rate_limit_events'[w][Len(rate_limit_events'[w])]
           /\ cooldownUntil'[w] > now
           /\ queue'[w] = <<loops[w][i].item>> \o queue[w]
           /\ pc' = pc
           /\ settled' = settled
           /\ rejections' = rejections
           /\ request_log' = request_log]_vars

\* a rate-limited item is back at the head of its worker's queue, before an item
\* that came later, while the worker cools down and its caller still awaits
C25_Witness ==
  \E w \in getAllWorkers :
    /\ state[w] = COOLING_DOWN
    /\ Len(queue[w]) = 2
    /\ Len(rate_limit_events[w]) >= 1
    /\ cooldownUntil[w] = rate_limit_events[w][Len(rate_limit_events[w])]
    /\ pc[Head(queue[w])] = "await"
    /\ settled[Head(queue[w])] = NoSettle

\* the items of the loops of worker w that are at makeRequest
Sent(w) ==
  LET http == SelectSeq(loops[w], LAMBDA loop : loop.at = "http")
  IN [i \in 1..Len(http) |-> http[i].item]

\* the items worker w has accepted and not completed, oldest first
Pending(w) == Sent(w) \o queue[w]

\* C26: the accepted, uncompleted items of a worker form a first-in first-out
\* line: a step leaves the line as it is, or adds one item at its end, or
\* removes its first item, which is resolved or rejected in that step; no item
\* of the line is resolved or rejected while an older one is ahead of it, also
\* when the first item was rate-limited and retried in between
C26_PerWorkerFifo ==
  [][\A w \in Workers :
       /\ \/ Pending(w)' = Pending(w)
          \/ \E r \in Calls : Pending(w)' = Append(Pending(w), r)
          \/ /\ Pending(w) # <<>>
             /\ Pending(w)' = Tail(Pending(w))
             /\ pc[Head(Pending(w))] = "await"
             /\ pc'[Head(Pending(w))] = "settled"
       /\ \A k \in 2..Len(Pending(w)) :
             pc'[Pending(w)[k]] = "settled" => pc[Pending(w)[k]] = "settled"]_vars

\* a worker was rate-limited on an item, sent it again and completed it, and
\* only then sent the item that had come after it
C26_Witness ==
  \E w \in getAllWorkers : \E r, later \in Calls :
    /\ r # later
    /\ Len(rate_limit_events[w]) >= 1
    /\ contacted[r][w] = 2
    /\ lastAnswer[r].worker = w
    /\ pc[r] = "settled"
    /\ contacted[later][w] = 1
    /\ Sent(w) = <<later>>

\* q is the beginning of s
IsPrefix(q, s) == Len(q) <= Len(s) /\ SubSeq(s, 1, Len(q)) = q

\* C27: a step that starts while a worker is COOLING_DOWN with now <
\* cooldownUntil takes no item out of its queue and sends no upstream request
\* for it; its drain loop is asleep for at most min(1 s, the remaining cooldown)
\* or about to re-check
C27_NoConsumptionInCooldown ==
  [][\A w \in Workers :
       (state[w] = COOLING_DOWN /\ cooldownUntil[w] # Null /\ now < cooldownUntil[w]) =>
         /\ IsPrefix(queue[w], queue'[w])
         /\ Sent(w) = <<>>
         /\ Sent(w)' = <<>>
         /\ \A r \in Calls : contacted'[r][w] = contacted[r][w]
         /\ \A i \in 1..Len(loops[w]) :
              /\ loops[w][i].at = "sleep"
              /\ loops[w][i].timer <= Min(WorkerSleepMs, cooldownUntil[w] - now)
         /\ \A i \in 1..Len(loops'[w]) :
              /\ loops'[w][i].at = "sleep"
              /\ loops'[w][i].timer <= Min(WorkerSleepMs, cooldownUntil[w] - now)]_vars

\* a cooling worker's loop has woken before the cooldown was over, found the
\* cooldown still running and gone back to sleep with its item still queued
C27_Witness ==
  \E w \in getAllWorkers :
    /\ state[w] = COOLING_DOWN
    /\ cooldownUntil[w] > now
    /\ Len(rate_limit_events[w]) >= 1
    /\ cooldownUntil[w] < rate_limit_events[w][Len(rate_limit_events[w])]
    /\ queue[w] # <<>>
    /\ Len(loops[w]) = 1
    /\ loops[w][1].at = "sleep"
    /\ loops[w][1].timer = WorkerSleepMs

\* C28 as stated: a worker is COOLING_DOWN exactly when its cooldownUntil is set
\* and later than now
C28_Original ==
  \A w \in getAllWorkers :
    state[w] = COOLING_DOWN <=> (cooldownUntil[w] # Null /\ cooldownUntil[w] > now)

\* C28: a worker is COOLING_DOWN exactly when its cooldownUntil is set; while
\* cooldownUntil is later than now it is COOLING_DOWN, and once cooldownUntil has
\* passed it stays COOLING_DOWN only with a non-empty queue and a sleeping drain
\* loop that has yet to observe the expiry
C28_CoolingIffDeadlineSet ==
  \A w \in getAllWorkers :
    /\ state[w] = COOLING_DOWN <=> cooldownUntil[w] # Null
    /\ Cooling(w) => state[w] = COOLING_DOWN
    /\ (state[w] = COOLING_DOWN /\ cooldownUntil[w] <= now) =>
         /\ queue[w] # <<>>
         /\ isProcessing[w]
         /\ Len(loops[w]) = 1
         /\ loops[w][1].at = "sleep"

\* the cooldown of a worker has run out and its drain loop has not woken yet:
\* the worker is still COOLING_DOWN with cooldownUntil = now
C28_Witness ==
  \E w \in getAllWorkers :
    /\ state[w] = COOLING_DOWN
    /\ cooldownUntil[w] = now
    /\ Len(rate_limit_events[w]) >= 1
    /\ loops[w] # <<>>
    /\ loops[w][1].timer = 0

Positive(resp, log) ==
  LET recent == getRecentRequests(log, historyWindowSize)
      failed == Cardinality({i \in 1..Len(recent) : ~recent[i]})
  IN (IF resp.status \in {429, 503, 403} THEN {"httpStatus"} ELSE {})
     \cup (IF checkResponseBody(resp.data, resp.error) THEN {"responseBody"} ELSE {})
     \cup (IF Len(recent) >= 5
               /\ failed * detectionThresholdDen >= detectionThresholdNum * Len(recent)
           THEN {"failureRate"} ELSE {})
     \cup (IF checkTimeout(resp.error) THEN {"timeout"} ELSE {})

\* C30: what detectRateLimit returned says isRateLimited exactly when at least
\* one of the four signals is positive, with confidence = positive signals / 4;
\* with no positive signal it is not rate-limited with cooldownMs 0 and
\* confidence 0
C30_DetectorVerdict ==
  (input # <<>> /\ input[1] = "detectRateLimit") =>
    LET positive == Positive(input[3], input[4])
    IN /\ output.isRateLimited <=> positive # {}
       /\ output.confidence[2] # 0
       /\ output.confidence[1] * 4 = Cardinality(positive) * output.confidence[2]
       /\ \A signal \in DOMAIN output.signals : output.signals[signal] <=> signal \in positive
       /\ output.isRateLimited => output.cooldownMs > 0
       /\ ~output.isRateLimited => output.cooldownMs = 0

\* a successful answer judged rate-limited on the failure rate alone, with
\* confidence 1/4
C30_Witness ==
  /\ input # <<>>
  /\ input[1] = "detectRateLimit"
  /\ input[3] = ResultOk
  /\ Len(input[4]) = 5
  /\ output.isRateLimited
  /\ output.signals.failureRate
  /\ output.confidence = Quotient(1, 4)

\* the callbacks that are awaiting a probe of worker w
Probing(w, callbacks) == {c \in 1..Len(callbacks) : callbacks[c] = w}

Accepts(w) == \E r \in Calls : Pending(w)' = Append(Pending(w), r)

\* C33: a worker with a non-empty queue has isProcessing set, and isProcessing
\* is set exactly while a drain loop of the worker is running; a drain loop
\* starts only in a step in which the worker accepts an item while isProcessing
\* is false, every such step starts one, and isProcessing is cleared only with
\* the queue empty
C33_DrainLoopLifecycle ==
  [][\A w \in Workers :
       /\ queue[w] # <<>> => isProcessing[w]
       /\ queue'[w] # <<>> => isProcessing'[w]
       /\ isProcessing[w] <=> loops[w] # <<>>
       /\ isProcessing'[w] <=> loops'[w] # <<>>
       /\ Len(loops'[w]) > Len(loops[w]) => Accepts(w) /\ ~isProcessing[w]
       /\ (Accepts(w) /\ ~isProcessing[w]) =>
            Len(loops'[w]) = 1 /\ isProcessing'[w]
       /\ (isProcessing[w] /\ ~isProcessing'[w]) => queue'[w] = <<>>]_vars

\* a worker that has a request on record is sending one while a further
\* item waits in its queue, with one drain loop running
C33_Witness ==
  \E w \in getAllWorkers :
    /\ endpoint_statistics[w].total_requests >= 1
    /\ queue[w] # <<>>
    /\ isProcessing[w]
    /\ Len(loops[w]) = 1
    /\ loops[w][1].at = "http"

\* C34: when routeRequest resumes on a rejection, of whatever kind
\* (TEMPORARY_ERROR, Queue full, transport error), it either gives up, exactly
\* when the tried workers including this one are no fewer than the available
\* ones and attempts has reached maxRetries, throwing with the error's message,
\* or goes on with this error as lastError and the worker among the tried
\* workers (none once all available ones are tried); and a transport error
\* that is no rate limit is settled by the worker as a rejection with one more
\* failed request on the endpoint's record
C34_UniformRejection ==
  [][/\ \A r \in Calls :
          (RouterSettle(r) /\ settled[r].kind = "reject") =>
            LET tried == triedWorkers[r] \cup {worker[r]}
                all == Cardinality(tried) >= Cardinality(availableWorkers[r])
            IN IF all /\ attempts[r] >= maxRetries
               THEN /\ pc'[r] = "failed"
                    /\ thrown'[r] =
                         <<"All RPC endpoints failed: ">> \o settled[r].error.message
               ELSE /\ pc'[r] \in {"await", "settled", "sleep"}
                    /\ lastError'[r] = settled[r].error
                    /\ triedWorkers'[r] = IF all THEN {} ELSE tried
     /\ \A w \in Workers : \A i \in 1..Len(loops[w]) : \A resp \in Responses :
        \A responseTime \in ResponseTimes :
          (/\ UpstreamRespond(w, i, resp, responseTime)
           /\ resp.error.isError
           /\ ~RateLimits(w, resp)) =>
            /\ settled'[loops[w][i].item] = Reject(TransportError(resp.error))
            /\ pc'[loops[w][i].item] = "settled"
            /\ endpoint_statistics'[w].failed_requests =
                 endpoint_statistics[w].failed_requests + 1
            /\ endpoint_statistics'[w].total_requests =
                 endpoint_statistics[w].total_requests + 1
            /\ rate_limit_events'[w] = rate_limit_events[w]]_vars

\* one call goes on after a Queue full rejection while another goes on after a
\* transport error that was no rate limit
C34_Witness ==
  \E r, q \in Calls :
    /\ pc[r] \in {"await", "sleep"}
    /\ lastError[r] = QueueFull
    /\ pc[q] \in {"await", "sleep"}
    /\ lastError[q] = TransportError(SocketHangUp.error)

Latched(w) ==
  LET recent == getRecentRequests(request_log[w], historyWindowSize)
      failed == Cardinality({i \in 1..Len(recent) : ~recent[i]})
  IN /\ Len(recent) >= 5
     /\ failed * detectionThresholdDen >= detectionThresholdNum * Len(recent)

\* C36: once the failure-rate signal of an endpoint is positive it stays
\* positive and the endpoint's request log never changes again; every upstream
\* answer its worker gets from then on, a success included, is handled as a
\* rate limit, and no item the worker holds is ever resolved or rejected
C36_FailureRateLatches ==
  [][\A w \in getAllWorkers :
       Latched(w) =>
         /\ Latched(w)'
         /\ request_log'[w] = request_log[w]
         /\ IsPrefix(Pending(w), Pending(w)')
         /\ \A k \in 1..Len(Pending(w)) :
              pc[Pending(w)[k]] = "await" /\ pc'[Pending(w)[k]] = "await"
         /\ \A i \in 1..Len(loops[w]) : \A resp \in Responses :
            \A responseTime \in ResponseTimes :
              UpstreamRespond(w, i, resp, responseTime) =>
                /\ RateLimits(w, resp)
                /\ state'[w] = COOLING_DOWN
                /\ Head(queue'[w]) = loops[w][i].item]_vars

\* an endpoint whose failure-rate signal is positive has sent its worker into
\* a third cooldown with the same item still at the head of the queue
C36_Witness ==
  \E w \in getAllWorkers :
    /\ Latched(w)
    /\ Len(rate_limit_events[w]) = 3
    /\ state[w] = COOLING_DOWN
    /\ queue[w] # <<>>
    /\ contacted[Head(queue[w])][w] = 3
    /\ pc[Head(queue[w])] = "await"

C38_CoolingHoldsItsItem ==
  [][\A w \in getAllWorkers :
       /\ state'[w] = COOLING_DOWN =>
            /\ isProcessing'[w]
            /\ queue'[w] # <<>>
            /\ contacted'[Head(queue'[w])][w] >= 1
            /\ pc'[Head(queue'[w])] = "await"
            /\ worker'[Head(queue'[w])] = w
       /\ (state[w] # COOLING_DOWN /\ state'[w] = COOLING_DOWN) =>
            /\ Len(Sent(w)) = 1
            /\ Head(queue'[w]) = Sent(w)[1]
       /\ (state[w] = COOLING_DOWN /\ state'[w] = COOLING_DOWN) =>
            Head(queue'[w]) = Head(queue[w])
       /\ (queue'[w] = <<>> /\ loops'[w] = <<>>) =>
            /\ ~isProcessing'[w]
            /\ state'[w] = HEALTHY
            /\ cooldownUntil'[w] = Null]_vars

\* a worker that has been rate-limited before is idle again, HEALTHY with no
\* deadline, while another is cooling down holding its item
C38_Witness ==
  \E w, v \in getAllWorkers :
    /\ Len(rate_limit_events[w]) >= 1
    /\ queue[w] = <<>>
    /\ loops[w] = <<>>
    /\ state[w] = HEALTHY
    /\ state[v] = COOLING_DOWN
    /\ isProcessing[v]
    /\ queue[v] # <<>>

\* the upstream requests made for call r so far
Contacts(r) == Sum([w \in 1..MaxWorkers |-> contacted[r][w]])

\* C39: every iteration of routeRequest adds one to attempts, also one that
\* finds no worker available and only sleeps; and a rejection that finds
\* attempts at maxRetries = 2 * the number of workers, with the tried workers
\* no fewer than the available ones, makes the call fail with 'All RPC
\* endpoints failed', however few upstream requests were made for it
C39_SleepsCountAsAttempts ==
  [][\A r \in Calls :
       /\ RouterWake(r) =>
            /\ attempts'[r] = Min(attempts[r] + 1, maxRetries)
            /\ pc'[r] = "sleep" => Contacts(r)' = Contacts(r)
       /\ (/\ RouterSettle(r)
           /\ settled[r].kind = "reject"
           /\ attempts[r] >= 2 * Cardinality(getAllWorkers)
           /\ Cardinality(triedWorkers[r] \cup {worker[r]})
                >= Cardinality(availableWorkers[r])) =>
            /\ pc'[r] = "failed"
            /\ thrown'[r] = <<"All RPC endpoints failed: ">> \o settled[r].error.message
            /\ Contacts(r)' = Contacts(r)]_vars

\* a call has failed with 'All RPC endpoints failed' after a single upstream
\* request was made for it
C39_Witness ==
  \E r \in Calls :
    /\ pc[r] = "failed"
    /\ thrown[r] # <<>>
    /\ Contacts(r) = 1

\* the items of worker w that are resolved or rejected in this step
Completes(w) ==
  {k \in 1..Len(Pending(w)) :
     pc[Pending(w)[k]] = "await" /\ pc'[Pending(w)[k]] = "settled"}

\* C40: a step that handles a rate-limit verdict leaves the endpoint's request
\* log and its total, successful and failed counts and response times as they
\* were, changing only rate_limit_events and rate_limited_requests; the request
\* log and the total count grow by one row exactly in the steps in which the
\* worker resolves or rejects one of its items, and in no other step
C40_RateLimitFrame ==
  [][\A w \in getAllWorkers :
       /\ HandlesRateLimit(w) =>
            /\ request_log'[w] = request_log[w]
            /\ endpoint_statistics'[w] =
                 [endpoint_statistics[w] EXCEPT
                    !.rate_limited_requests = endpoint_statistics'[w].rate_limited_requests]
            /\ rate_limit_events'[w] # rate_limit_events[w]
            /\ Completes(w) = {}
       /\ IF Completes(w) # {}
          THEN /\ Cardinality(Completes(w)) = 1
               /\ endpoint_statistics'[w].total_requests =
                    endpoint_statistics[w].total_requests + 1
               /\ \E success \in BOOLEAN :
                    request_log'[w] = getRecentRequests(Append(request_log[w], success),
                                                       historyWindowSize)
               /\ rate_limit_events'[w] = rate_limit_events[w]
          ELSE /\ request_log'[w] = request_log[w]
               /\ endpoint_statistics'[w].total_requests =
                    endpoint_statistics[w].total_requests]_vars

\* an endpoint with one rate limit handled and one request completed: one
\* event, one request-log row, counts 1 and 1
C40_Witness ==
  \E w \in getAllWorkers :
    /\ Len(rate_limit_events[w]) = 1
    /\ endpoint_statistics[w].rate_limited_requests = 1
    /\ Len(request_log[w]) = 1
    /\ endpoint_statistics[w].total_requests = 1
====
